---- MODULE Spec2Model ----
(***************************************************************************)
(* A state-machine model of the storage-engine core of bustub:             *)
(*   - the LRU-K replacer          (src/src/buffer/lru_k_replacer.cpp)      *)
(*   - the buffer pool manager     (src/src/buffer/buffer_pool_manager.cpp) *)
(*   - the page guards             (src/src/storage/page/page_guard.cpp)    *)
(*   - the B+ tree and its pages   (src/src/storage/index, storage/page)    *)
(*                                                                         *)
(* Undefined behaviour of the C++ code (a dereferenced dangling or         *)
(* past-the-end iterator, back() of an empty deque, ...) is modelled as a   *)
(* choice over what a build can do: the process stops (variable aborted:    *)
(* a crash, a failed assertion or an endless loop under a mutex), or, where *)
(* a build can carry on, the run continues on the memory actually read.     *)
(***************************************************************************)
EXTENDS Integers, Sequences, FiniteSets, TLC

(***************************************************************************)
(* Bounds of the model.                                                    *)
(***************************************************************************)
\* frames of the pool are 0 .. PoolSize-1 (pool_size_)
PoolSize == 2
\* page ids handed out by AllocatePage and asked for by callers: 0 .. MaxPages-1
MaxPages == 3
\* calling threads are 1 .. NumThreads
NumThreads == 2
\* replacer_k is drawn from 1 .. MaxK
MaxK == 2
\* recorded accesses are capped: current_timestamp_ stays <= MaxTimestamp
MaxTimestamp == 4
\* distinct byte contents a caller may write into a page: 1 .. MaxData (0 = zeroed)
MaxData == 1

Frames  == 0 .. (PoolSize - 1)
PageIds == 0 .. (MaxPages - 1)
Threads == 1 .. NumThreads
\* addresses at which a node of a replacer list can be allocated
Addrs   == 1 .. PoolSize

INVALID_PAGE_ID == -1
NoFrame == -1

\* ---- B+ tree ----
\* the constructor arguments leaf_max_size and internal_max_size
LeafMaxSize == 3
InternalMaxSize == 3
\* the values of leaf_max_size a tree is constructed with
LeafMaxSizes == {LeafMaxSize - 1, LeafMaxSize}
\* keys are 1 .. MaxKey, values (RIDs) 1 .. MaxValue; 0 is zeroed memory
MaxKey == 4
MaxValue == 2
\* page ids the tree can be given by NewPageGuarded: 1 .. MaxTreePages
MaxTreePages == 6
\* pairs of array_ that are modelled: slots 0 .. ArrayCap-1 (a page holds many more)
ArrayCap == 6
\* the id of the header page handed to the constructor
HEADER_PAGE_ID == 0

Keys == 1 .. MaxKey
Values == 1 .. MaxValue
TreePageIds == 1 .. MaxTreePages
Slots == 0 .. (ArrayCap - 1)

\* a page after ResetMemory: all bytes zero
ZeroPair == [k |-> 0, v |-> 0]
BlankPage == [page_type |-> "INVALID", size |-> 0, max_size |-> 0, next_page_id_ |-> 0,
              array |-> [i \in Slots |-> ZeroPair]]

VARIABLES
  \* ---- LRUKReplacer ----
  k_,                  \* LRUKReplacer::k_
  heap,                \* the LRUKNode objects, by the address of their list node
  node_list_less_k_,   \* std::list<LRUKNode>, front first, as addresses
  node_list_more_k_,   \* std::list<LRUKNode>, front first, as addresses
  node_store_,         \* std::unordered_map: frame id -> list iterator (an address)
  curr_size_,          \* size_t curr_size_; a value v < 0 stands for 2^64 + v
  current_timestamp_,  \* size_t current_timestamp_
  \* ---- BufferPoolManager ----
  pages_,              \* Page[pool_size_]: page_id_, pin_count_, is_dirty_, data_,
                       \* rwlatch_ (readers: shared holders, writer: held exclusively)
  page_table_,         \* std::unordered_map: page id -> frame id
  free_list_,          \* std::list<frame_id_t>
  next_page_id_,       \* std::atomic<page_id_t>
  disk,                \* the disk manager: page id -> bytes last written
  \* ---- callers ----
  pc,                  \* per thread: where it is inside a BufferPoolManager call
  loc,                 \* per thread: the locals of the call in progress
  hist,                \* observation of the last completed call / of the run
  aborted,             \* the process stopped on undefined behaviour or an assertion
  \* ---- BPlusTree ----
  root_page_id_,       \* BPlusTreeHeaderPage::root_page_id_ of the header page
  tree_pages,          \* the bytes of the tree's pages, by page id
  leaf_max_size_,      \* BPlusTree::leaf_max_size_
  internal_max_size_   \* BPlusTree::internal_max_size_

repVars == <<k_, heap, node_list_less_k_, node_list_more_k_, node_store_,
             curr_size_, current_timestamp_>>
bpmVars == <<pages_, page_table_, free_list_, next_page_id_, disk>>
vars == <<k_, heap, node_list_less_k_, node_list_more_k_, node_store_,
          curr_size_, current_timestamp_, pages_, page_table_, free_list_,
          next_page_id_, disk, pc, loc, hist, aborted, root_page_id_, tree_pages,
          leaf_max_size_, internal_max_size_>>
treeVars == <<root_page_id_, tree_pages, leaf_max_size_, internal_max_size_>>

(***************************************************************************)
(* Sequence helpers.                                                       *)
(***************************************************************************)
\* std::unordered_map: erase, operator[]-assignment, and insert (which keeps an
\* existing entry)
MapErase(m, key) == [x \in DOMAIN m \ {key} |-> m[x]]
MapPut(m, key, v) == [x \in DOMAIN m \cup {key} |-> IF x = key THEN v ELSE m[x]]
MapInsert(m, key, v) == IF key \in DOMAIN m THEN m ELSE MapPut(m, key, v)

Without(s, a) == SelectSeq(s, LAMBDA x : x # a)
InSeq(s, a) == \E i \in 1 .. Len(s) : s[i] = a
Last(s) == s[Len(s)]
Front(s) == SubSeq(s, 1, Len(s) - 1)

(***************************************************************************)
(* LRUKNode.  history_ is a std::list<size_t>, newest first.  A freed node *)
(* keeps its bytes (live = FALSE) until its address is allocated again.    *)
(***************************************************************************)
FreshNode == [live |-> FALSE, fid |-> NoFrame, is_evictable |-> FALSE, history |-> <<>>]

\* LRUKNode::AddHistory
AddHistory(n, k, timestamp) ==
  LET h == IF Len(n.history) >= k THEN Front(n.history) ELSE n.history
  IN [n EXCEPT !.history = <<timestamp>> \o h]

\* LRUKNode::GetKHistory: the oldest of the (at most k) kept timestamps
GetKHistory(n) == Last(n.history)

\* The replacer as one value, for the operators below.
Rep == [k |-> k_, heap |-> heap, less |-> node_list_less_k_, more |-> node_list_more_k_,
        store |-> node_store_, size |-> curr_size_, ts |-> current_timestamp_]

\* Outcomes of a replacer call: the replacer after it, whether the call ran into
\* undefined behaviour and stopped the process, and what it returned.
Out(R, ub, ok, fid) == [R |-> R, ub |-> ub, ok |-> ok, fid |-> fid]

\* Where operator new may put a new list node: memory never handed out so far
\* (one representative), or the memory of any freed node, which a dangling
\* node_store_ entry may still point to.
AllocChoices(R) ==
  LET free == {a \in Addrs : ~R.heap[a].live}
      pointed == {a \in free : \E f \in DOMAIN R.store : R.store[f] = a}
      unpointed == free \ pointed
  IN pointed \cup (IF unpointed = {} THEN {} ELSE {CHOOSE a \in unpointed : \A b \in unpointed : a <= b})

\* std::list::splice of the node at address a to the front of less / end of more
SpliceFrontLess(R, a) ==
  [R EXCEPT !.less = <<a>> \o Without(R.less, a), !.more = Without(R.more, a)]
SpliceBackMore(R, a) ==
  [R EXCEPT !.more = Without(R.more, a) \o <<a>>, !.less = Without(R.less, a)]

\* the new-frame branch shared by RecordAccess and RecordAccessAndSetEvictable
NewNode(R, frame_id, a) ==
  [R EXCEPT !.heap[a] = [live |-> TRUE, fid |-> frame_id, is_evictable |-> TRUE,
                         history |-> <<R.ts>>],
            !.less = <<a>> \o R.less,
            !.store = MapPut(R.store, frame_id, a),
            !.size = R.size + 1,
            !.ts = R.ts + 1]

\* the known-frame branch: move between the lists, then AddHistory
Touch(R, a) ==
  LET n == R.heap[a]
      R1 == IF Len(n.history) < R.k - 1 THEN SpliceFrontLess(R, a)
            ELSE IF Len(n.history) = R.k - 1 THEN SpliceBackMore(R, a)
            ELSE R
  IN [R1 EXCEPT !.heap[a] = AddHistory(n, R.k, R.ts), !.ts = R.ts + 1]

\* the curr_size_ update of SetEvictable
FlagSize(R, a, set_evictable) ==
  LET evictable == R.heap[a].is_evictable
  IN [R EXCEPT !.heap[a].is_evictable = set_evictable,
               !.size = IF evictable # set_evictable
                        THEN (IF set_evictable THEN R.size + 1 ELSE R.size - 1)
                        ELSE R.size]

\* LRUKReplacer::RecordAccess
RecordAccess(R, frame_id) ==
  IF frame_id \notin DOMAIN R.store
  THEN {Out(NewNode(R, frame_id, a), FALSE, TRUE, frame_id) : a \in AllocChoices(R)}
  ELSE LET a == R.store[frame_id]
       IN IF ~R.heap[a].live THEN {Out(R, TRUE, FALSE, frame_id)}
          ELSE {Out(Touch(R, a), FALSE, TRUE, frame_id)}

\* LRUKReplacer::RecordAccessAndSetEvictable
RecordAccessAndSetEvictable(R, frame_id, set_evictable) ==
  IF frame_id \notin DOMAIN R.store
  THEN {Out([NewNode(R, frame_id, a) EXCEPT !.heap[a].is_evictable = set_evictable],
            FALSE, TRUE, frame_id) : a \in AllocChoices(R)}
  ELSE LET a == R.store[frame_id]
       IN IF ~R.heap[a].live THEN {Out(R, TRUE, FALSE, frame_id)}
          ELSE {Out(FlagSize(Touch(R, a), a, set_evictable), FALSE, TRUE, frame_id)}

\* LRUKReplacer::SetEvictable.  node_store_[frame_id] of an unknown frame is a
\* null iterator; a freed node is written in place (or the access is trapped).
SetEvictable(R, frame_id, set_evictable) ==
  IF frame_id \notin DOMAIN R.store THEN {Out(R, TRUE, FALSE, frame_id)}
  ELSE LET a == R.store[frame_id]
       IN {Out(FlagSize(R, a, set_evictable), FALSE, TRUE, frame_id)}
          \cup (IF R.heap[a].live THEN {} ELSE {Out(R, TRUE, FALSE, frame_id)})

\* LRUKReplacer::Remove.  The list node is erased; node_store_ keeps its entry.
\* BUSTUB_ASSERT(evictable) stops a build with assertions and is nothing in one
\* without them.  Lines 155-159 choose the list by the history size: erase on
\* the list the node is not in is undefined (the node is unlinked from the list
\* it is in, or the process stops).
Remove(R, frame_id) ==
  IF frame_id \notin DOMAIN R.store THEN {Out(R, FALSE, TRUE, frame_id)}
  ELSE LET a == R.store[frame_id]
           erased == [R EXCEPT !.less = Without(R.less, a), !.more = Without(R.more, a),
                               !.heap[a].live = FALSE,
                               !.size = R.size - 1]
           other_list == (Len(R.heap[a].history) >= R.k) # InSeq(R.more, a)
       IN IF ~R.heap[a].live THEN {Out(R, TRUE, FALSE, frame_id)}
          ELSE IF R.heap[a].is_evictable /\ ~other_list
          THEN {Out(erased, FALSE, TRUE, frame_id)}
          ELSE {Out(R, TRUE, FALSE, frame_id), Out(erased, FALSE, TRUE, frame_id)}

\* the victim of the scan of node_list_more_k_ (lines 56-63)
RECURSIVE ScanMore(_, _, _, _)
ScanMore(R, s, i, best) ==
  IF i > Len(s) THEN best
  ELSE LET n == R.heap[s[i]]
           b == R.heap[best]
       IN IF n.is_evictable /\ (GetKHistory(n) < GetKHistory(b) \/ ~b.is_evictable)
          THEN ScanMore(R, s, i + 1, s[i])
          ELSE ScanMore(R, s, i + 1, best)

\* erase of the chosen node in Evict
EvictNode(R, a) ==
  [R EXCEPT !.store = MapErase(R.store, R.heap[a].fid),
            !.less = Without(R.less, a), !.more = Without(R.more, a),
            !.heap[a].live = FALSE,
            !.size = R.size - 1]

\* LRUKReplacer::Evict.  curr_size_ is unsigned: "<= 0" is "= 0".  The loop over node_list_less_k_ has no end test: with
\* no evictable node in a non-empty list it walks past rend().
Evict(R) ==
  IF R.size = 0 THEN {Out(R, FALSE, FALSE, NoFrame)}
  ELSE IF R.less # <<>>
  THEN LET cand == {i \in 1 .. Len(R.less) : R.heap[R.less[i]].is_evictable}
       IN IF cand = {} THEN {Out(R, TRUE, FALSE, NoFrame)}
          ELSE LET i == CHOOSE j \in cand : \A l \in cand : l <= j
                   a == R.less[i]
               IN {Out(EvictNode(R, a), FALSE, TRUE, R.heap[a].fid)}
  ELSE IF R.more # <<>>
  THEN LET a == ScanMore(R, R.more, 1, R.more[1])
       IN IF R.heap[a].is_evictable
          THEN {Out(EvictNode(R, a), FALSE, TRUE, R.heap[a].fid)}
          ELSE {Out(R, FALSE, FALSE, NoFrame)}
  ELSE {Out(R, FALSE, FALSE, NoFrame)}

\* LRUKReplacer::Size
Size(R) == R.size

(***************************************************************************)
(* BufferPoolManager.  A call is a sequence of steps of its thread; what   *)
(* runs under latch_ is one step, and each access to the disk manager or   *)
(* to the page's fields made outside latch_ is a step of its own.          *)
(***************************************************************************)
SetRep(R) ==
  /\ k_' = R.k
  /\ heap' = R.heap
  /\ node_list_less_k_' = R.less
  /\ node_list_more_k_' = R.more
  /\ node_store_' = R.store
  /\ curr_size_' = R.size
  /\ current_timestamp_' = R.ts

\* The locals of a call in progress (frame_id, the page id being installed), what
\* the call saw of the chosen frame (was_dirty: is_dirty_ when it was chosen;
\* flushed: WritePage of the frame's old page id and bytes was issued since), and
\* held: the Page pointers the thread got and has not unpinned, <<page id, frame>>;
\* g: what the call returns ("page": a Page pointer; "basic", "read", "write",
\* "new": the guard of FetchPageBasic / FetchPageRead / FetchPageWrite /
\* NewPageGuarded); guards: the page guards the thread owns.
NoLoc == [frame_id |-> NoFrame, page_id |-> INVALID_PAGE_ID, was_dirty |-> FALSE,
          flushed |-> FALSE, held |-> <<>>, g |-> "page", guards |-> <<>>]

\* What the model keeps besides the program's state:
\*   committed[p]  <<the bytes of p when it was last unpinned with is_dirty = true>>,
\*                 <<>> before that and once p is modified again or deleted
\*   stopped       the call in which the process stopped, "none" while it runs
NoHist == [committed |-> [p \in PageIds |-> <<>>], stopped |-> "none"]

\* the process stops inside the call named op
Stop(op) ==
  /\ aborted' = TRUE
  /\ hist' = [hist EXCEPT !.stopped = op]
  /\ UNCHANGED treeVars

\* threads inside NewPage or FetchPage (each will record one access)
InFlight == {t \in Threads : pc[t] # "idle"}

\* the page ids callers can name: those a NewPage has returned
Known(page_id) ==
  /\ page_id < next_page_id_
  /\ \A t \in Threads :
       ~(pc[t] \in {"np_write", "np_reset", "np_meta", "np_publish"}
         /\ loc[t].page_id = page_id)

\* the model's cap on recorded accesses
CanRecord == current_timestamp_ + Cardinality(InFlight) < MaxTimestamp

\* BufferPoolManager::GetFreeFrameLF, on (replacer, page table, free list):
\* the possible results
GetFreeFrameLF(R, pt, fl, pg) ==
  IF fl # <<>>
  THEN {[ub |-> FALSE, success |-> TRUE, frame_id |-> Head(fl), R |-> R, pt |-> pt,
         fl |-> Tail(fl), evicted |-> FALSE]}
  ELSE {[ub |-> o.ub, success |-> o.ok, frame_id |-> o.fid, R |-> o.R,
         pt |-> IF o.ok THEN MapErase(pt, pg[o.fid].page_id_) ELSE pt,
         fl |-> fl, evicted |-> o.ok] : o \in Evict(R)}

\* free_list_ is empty and every page of page_table_ is pinned
PoolFull ==
  /\ free_list_ = <<>>
  /\ \A p \in DOMAIN page_table_ : pages_[page_table_[p]].pin_count_ > 0

\* The Page pointers of a caller are kept in the order of their frames (the order
\* in which a caller got them has no effect on any call).
InsertHeld(held, e) ==
  LET n == Cardinality({i \in 1 .. Len(held) : held[i][2] <= e[2]})
  IN SubSeq(held, 1, n) \o <<e>> \o SubSeq(held, n + 1, Len(held))

\* NewPage / FetchPage return the Page pointer: to the caller, or to the guarded
\* call (FetchPageBasic, ...) they were made from
Hold(l, page_id, frame_id) ==
  IF l.g = "page"
  THEN [l EXCEPT !.held = InsertHeld(l.held, <<page_id, frame_id>>),
                 !.frame_id = NoFrame, !.page_id = INVALID_PAGE_ID,
                 !.was_dirty = FALSE, !.flushed = FALSE]
  ELSE [l EXCEPT !.frame_id = frame_id, !.page_id = page_id,
                 !.was_dirty = FALSE, !.flushed = FALSE]

\* where the thread is after NewPage / FetchPage returned
AfterReturn(l) == IF l.g = "page" THEN "idle" ELSE "g_ctor"

\* the check of the bytes a FetchPage returns against the committed ones
Lost(page_id, bytes) ==
  hist.committed[page_id] # <<>> /\ hist.committed[page_id] # <<bytes>>

\* lines 47-57 of NewPage and 99-105 of FetchPage: the frame is chosen under
\* latch_; NewPage then draws the new page id (AllocatePage)
ChooseFrame(t, op, page_id, next, g) ==
  \E o \in GetFreeFrameLF(Rep, page_table_, free_list_, pages_) :
    IF o.ub
    THEN /\ Stop("GetFreeFrameLF")
         /\ UNCHANGED <<repVars, bpmVars, pc, loc>>
    ELSE IF ~o.success
    THEN /\ SetRep(o.R)
         /\ IF g = "page"
            THEN UNCHANGED <<pc, loc>>
            ELSE /\ loc' = [loc EXCEPT ![t].g = g, ![t].frame_id = NoFrame,
                                       ![t].page_id = INVALID_PAGE_ID]
                 /\ pc' = [pc EXCEPT ![t] = "g_ctor"]
         /\ UNCHANGED <<bpmVars, hist, aborted, treeVars>>
    ELSE /\ SetRep(o.R)
         /\ page_table_' = o.pt
         /\ free_list_' = o.fl
         /\ next_page_id_' = IF op = "NewPage" THEN next_page_id_ + 1 ELSE next_page_id_
         /\ loc' = [loc EXCEPT ![t].frame_id = o.frame_id, ![t].page_id = page_id,
                               ![t].was_dirty = pages_[o.frame_id].is_dirty_,
                               ![t].flushed = FALSE, ![t].g = g]
         /\ pc' = [pc EXCEPT ![t] = next]
         /\ UNCHANGED <<pages_, disk, hist, aborted, treeVars>>

\* NewPage / FetchPage without lines 64-66 / 108-110
WriteBackSkipped(t, next) ==
  /\ pc' = [pc EXCEPT ![t] = next]
  /\ UNCHANGED <<repVars, bpmVars, loc, hist, aborted, treeVars>>

\* lines 64-66 / 108-110: write back the chosen frame if it is dirty
WriteBack(t, next) ==
  LET f == loc[t].frame_id
      pg == pages_[f]
  IN /\ disk' = IF pg.is_dirty_ /\ pg.page_id_ \in PageIds
                THEN [disk EXCEPT ![pg.page_id_] = pg.data] ELSE disk
     /\ loc' = [loc EXCEPT ![t].flushed = @ \/ pg.is_dirty_]
     /\ pc' = [pc EXCEPT ![t] = next]
     /\ UNCHANGED <<repVars, pages_, page_table_, free_list_, next_page_id_, hist, aborted, treeVars>>

\* lines 69-74 / 113-116: the frame's metadata, then the replacer
SetMeta(t, next) ==
  LET f == loc[t].frame_id
  IN \E o \in RecordAccessAndSetEvictable(Rep, f, FALSE) :
       IF o.ub
       THEN /\ Stop("RecordAccessAndSetEvictable")
            /\ UNCHANGED <<repVars, bpmVars, pc, loc>>
       ELSE /\ SetRep(o.R)
            /\ pages_' = [pages_ EXCEPT ![f].page_id_ = loc[t].page_id,
                                        ![f].pin_count_ = 1,
                                        ![f].is_dirty_ = FALSE]
            /\ pc' = [pc EXCEPT ![t] = next]
            /\ UNCHANGED <<page_table_, free_list_, next_page_id_, disk, loc, hist, aborted, treeVars>>

\* lines 75-79 / 117-121: page_table_.insert under latch_, and the return
Publish(t) ==
  LET f == loc[t].frame_id
      p == loc[t].page_id
  IN /\ page_table_' = MapInsert(page_table_, p, f)
     /\ loc' = [loc EXCEPT ![t] = Hold(loc[t], p, f)]
     /\ pc' = [pc EXCEPT ![t] = AfterReturn(loc[t])]
     /\ UNCHANGED <<repVars, pages_, free_list_, next_page_id_, disk, hist, aborted, treeVars>>

(* ---- BufferPoolManager::NewPage ---- *)
NewPageChoose(t, g) ==
  /\ ~aborted /\ pc[t] = "idle" /\ CanRecord /\ next_page_id_ < MaxPages
  /\ ChooseFrame(t, "NewPage", next_page_id_, "np_write", g)

\* BUSTUB_ASSERT(pin count == 0) of line 63 stops a build with assertions
NewPageAssert(t) ==
  /\ ~aborted /\ pc[t] = "np_write"
  /\ pages_[loc[t].frame_id].pin_count_ # 0
  /\ Stop("BUSTUB_ASSERT")
  /\ UNCHANGED <<repVars, bpmVars, pc, loc>>

NewPageWriteBack(t) ==
  /\ ~aborted /\ pc[t] = "np_write"
  /\ WriteBack(t, "np_reset")

NewPageReset(t) ==
  /\ ~aborted /\ pc[t] = "np_reset"
  /\ pages_' = [pages_ EXCEPT ![loc[t].frame_id].data = 0]
  /\ pc' = [pc EXCEPT ![t] = "np_meta"]
  /\ UNCHANGED <<repVars, page_table_, free_list_, next_page_id_, disk, loc, hist, aborted, treeVars>>

NewPageSetMeta(t) ==
  /\ ~aborted /\ pc[t] = "np_meta"
  /\ SetMeta(t, "np_publish")

NewPagePublish(t) ==
  /\ ~aborted /\ pc[t] = "np_publish"
  /\ Publish(t)

(* ---- BufferPoolManager::FetchPage ---- *)
\* lines 87-97: the page is in page_table_
FetchPageHit(t, page_id, g) ==
  /\ ~aborted /\ pc[t] = "idle" /\ CanRecord
  /\ Known(page_id) /\ page_id \in DOMAIN page_table_
  /\ LET f == page_table_[page_id]
     IN \E o \in RecordAccessAndSetEvictable(Rep, f, FALSE) :
          IF o.ub
          THEN /\ Stop("RecordAccessAndSetEvictable")
               /\ UNCHANGED <<repVars, bpmVars, pc, loc>>
          ELSE /\ SetRep(o.R)
               /\ pages_' = [pages_ EXCEPT ![f].pin_count_ = @ + 1]
               /\ loc' = [loc EXCEPT ![t] = Hold([loc[t] EXCEPT !.g = g], page_id, f)]
               /\ pc' = [pc EXCEPT ![t] = AfterReturn([g |-> g])]
               /\ UNCHANGED <<page_table_, free_list_, next_page_id_, disk, hist, aborted, treeVars>>

FetchPageChoose(t, page_id, g) ==
  /\ ~aborted /\ pc[t] = "idle" /\ CanRecord
  /\ Known(page_id) /\ page_id \notin DOMAIN page_table_
  /\ ChooseFrame(t, "FetchPage", page_id, "fp_write", g)

FetchPageWriteBack(t) ==
  /\ ~aborted /\ pc[t] = "fp_write"
  /\ WriteBack(t, "fp_read")

\* line 111: disk_manager_->ReadPage(page_id, alloc_page->GetData())
FetchPageRead(t) ==
  /\ ~aborted /\ pc[t] = "fp_read"
  /\ pages_' = [pages_ EXCEPT ![loc[t].frame_id].data = disk[loc[t].page_id]]
  /\ pc' = [pc EXCEPT ![t] = "fp_meta"]
  /\ UNCHANGED <<repVars, page_table_, free_list_, next_page_id_, disk, loc, hist, aborted, treeVars>>

FetchPageSetMeta(t) ==
  /\ ~aborted /\ pc[t] = "fp_meta"
  /\ SetMeta(t, "fp_publish")

FetchPagePublish(t) ==
  /\ ~aborted /\ pc[t] = "fp_publish"
  /\ Publish(t)

(* ---- BufferPoolManager::UnpinPage ---- *)
\* the caller drops one Page pointer to page_id, if it has one
DropHeld(held, page_id) ==
  LET idx == {i \in 1 .. Len(held) : held[i][1] = page_id}
  IN IF idx = {} THEN held
     ELSE LET i == CHOOSE j \in idx : \A l \in idx : j <= l
          IN SubSeq(held, 1, i - 1) \o SubSeq(held, i + 1, Len(held))

\* lines 127-135: the early returns of UnpinPage
Refused(page_id) ==
  IF page_id \notin DOMAIN page_table_ THEN TRUE
  ELSE pages_[page_table_[page_id]].pin_count_ = 0

\* BufferPoolManager::UnpinPage on (replacer, pages, page table): the possible
\* results
Unpin(R, pg, pt, page_id, is_dirty) ==
  IF page_id \notin DOMAIN pt
  THEN {[ub |-> FALSE, ret |-> FALSE, R |-> R, pg |-> pg]}
  ELSE LET f == pt[page_id]
           pin == pg[f].pin_count_ - 1
       IN IF pg[f].pin_count_ = 0
          THEN {[ub |-> FALSE, ret |-> FALSE, R |-> R, pg |-> pg]}
          ELSE {[ub |-> o.ub, ret |-> TRUE, R |-> o.R,
                 pg |-> [pg EXCEPT ![f].pin_count_ = pin, ![f].is_dirty_ = is_dirty]] :
                    o \in IF pin = 0 THEN SetEvictable(R, f, TRUE)
                          ELSE {Out(R, FALSE, TRUE, f)}}

\* A caller unpins a page it holds a pointer to; any other call is one that
\* UnpinPage refuses (the page is not in page_table_, or its pin count is 0).
UnpinPage(t, page_id, is_dirty) ==
  /\ ~aborted /\ pc[t] = "idle" /\ Known(page_id)
  /\ \/ \E i \in 1 .. Len(loc[t].held) : loc[t].held[i][1] = page_id
     \/ Refused(page_id)
  /\ \E u \in Unpin(Rep, pages_, page_table_, page_id, is_dirty) :
       IF u.ub
       THEN /\ Stop("SetEvictable")
            /\ UNCHANGED <<repVars, bpmVars, pc, loc>>
       ELSE /\ SetRep(u.R)
            /\ pages_' = u.pg
            /\ loc' = [loc EXCEPT ![t].held = DropHeld(@, page_id)]
            /\ hist' = IF u.ret /\ is_dirty
                       THEN [hist EXCEPT !.committed[page_id] =
                                           <<pages_[page_table_[page_id]].data>>]
                       ELSE hist
            /\ UNCHANGED <<page_table_, free_list_, next_page_id_, disk, pc, aborted, treeVars>>

(* ---- a caller writes into a page it holds ---- *)
Modify(t, i, d) ==
  /\ ~aborted /\ pc[t] = "idle"
  /\ i \in 1 .. Len(loc[t].held)
  /\ LET page_id == loc[t].held[i][1]
         f == loc[t].held[i][2]
     IN /\ pages_[f].data # d
        /\ pages_' = [pages_ EXCEPT ![f].data = d]
        /\ hist' = [hist EXCEPT !.committed[page_id] = <<>>]
  /\ UNCHANGED <<repVars, page_table_, free_list_, next_page_id_, disk, pc, loc, aborted, treeVars>>

(* ---- BufferPoolManager::FlushPage ---- *)
FlushPage(t, page_id) ==
  /\ ~aborted /\ pc[t] = "idle" /\ Known(page_id)
  /\ IF page_id \notin DOMAIN page_table_
     THEN UNCHANGED <<bpmVars>>
     ELSE LET f == page_table_[page_id]
          IN /\ disk' = [disk EXCEPT ![page_id] = pages_[f].data]
             /\ pages_' = [pages_ EXCEPT ![f].is_dirty_ = FALSE]
             /\ UNCHANGED <<page_table_, free_list_, next_page_id_>>
  /\ UNCHANGED <<repVars, pc, loc, hist, aborted, treeVars>>

(* ---- BufferPoolManager::FlushAllPages ---- *)
\* the loop over the frames 0 .. pool_size_-1: WritePage(page id of the frame, bytes)
RECURSIVE FlushAllDisk(_, _)
FlushAllDisk(d, i) ==
  IF i \notin Frames THEN d
  ELSE FlushAllDisk(IF pages_[i].page_id_ \in PageIds
                    THEN [d EXCEPT ![pages_[i].page_id_] = pages_[i].data] ELSE d,
                    i + 1)

FlushAllPages(t) ==
  /\ ~aborted /\ pc[t] = "idle"
  /\ disk' = FlushAllDisk(disk, 0)
  /\ pages_' = [f \in Frames |-> [pages_[f] EXCEPT !.is_dirty_ = FALSE]]
  /\ loc' = [u \in Threads |->
               IF pc[u] \in {"np_write", "fp_write"}
                  /\ pages_[loc[u].frame_id].page_id_ \in PageIds
               THEN [loc[u] EXCEPT !.flushed = TRUE] ELSE loc[u]]
  /\ UNCHANGED <<repVars, page_table_, free_list_, next_page_id_, pc, hist, aborted, treeVars>>

(* ---- BufferPoolManager::DeletePage ---- *)
DeletePage(t, page_id) ==
  /\ ~aborted /\ pc[t] = "idle" /\ Known(page_id)
  /\ IF page_id \notin DOMAIN page_table_
     THEN UNCHANGED vars
     ELSE LET f == page_table_[page_id]
          IN IF pages_[f].pin_count_ > 0
             THEN UNCHANGED vars
             ELSE \E o \in Remove(Rep, f) :
                    IF o.ub
                    THEN /\ Stop("Remove")
                         /\ UNCHANGED <<repVars, bpmVars, pc, loc>>
                    ELSE /\ SetRep(o.R)
                         /\ disk' = IF pages_[f].is_dirty_
                                    THEN [disk EXCEPT ![page_id] = pages_[f].data]
                                    ELSE disk
                         /\ page_table_' = MapErase(page_table_, page_id)
                         /\ free_list_' = Append(free_list_, f)
                         /\ pages_' = [pages_ EXCEPT ![f].data = 0,
                                                     ![f].pin_count_ = 0,
                                                     ![f].is_dirty_ = FALSE]
                         /\ hist' = [hist EXCEPT !.committed[page_id] = <<>>]
                         /\ UNCHANGED <<next_page_id_, pc, loc, aborted, treeVars>>

(* ---- the pool and its callers ---- *)
\* BufferPoolManager::BufferPoolManager and LRUKReplacer::LRUKReplacer, with
\* replacer_k = MaxK
Init ==
  /\ k_ = MaxK
  /\ heap = [a \in Addrs |-> FreshNode]
  /\ node_list_less_k_ = <<>>
  /\ node_list_more_k_ = <<>>
  /\ node_store_ = <<>>
  /\ curr_size_ = 0
  /\ current_timestamp_ = 0
  /\ pages_ = [f \in Frames |-> [page_id_ |-> INVALID_PAGE_ID, pin_count_ |-> 0,
                                  is_dirty_ |-> FALSE, data |-> 0,
                                  readers |-> 0, writer |-> FALSE]]
  /\ page_table_ = <<>>
  /\ free_list_ = [i \in 1 .. PoolSize |-> i - 1]
  /\ next_page_id_ = 0
  /\ disk = [p \in PageIds |-> 0]
  /\ pc = [t \in Threads |-> "idle"]
  /\ loc = [t \in Threads |-> NoLoc]
  /\ hist = NoHist
  /\ aborted = FALSE
  /\ root_page_id_ = INVALID_PAGE_ID
  /\ tree_pages = [p \in TreePageIds |-> BlankPage]
  /\ leaf_max_size_ = LeafMaxSize + 1
  /\ internal_max_size_ = InternalMaxSize + 1

Next ==
  \E t \in Threads :
    \/ NewPageChoose(t, "page")
    \/ NewPageAssert(t)
    \/ NewPageWriteBack(t)
    \/ NewPageReset(t)
    \/ NewPageSetMeta(t)
    \/ NewPagePublish(t)
    \/ \E p \in PageIds : FetchPageHit(t, p, "page")
    \/ \E p \in PageIds : FetchPageChoose(t, p, "page")
    \/ FetchPageWriteBack(t)
    \/ FetchPageRead(t)
    \/ FetchPageSetMeta(t)
    \/ FetchPagePublish(t)
    \/ \E p \in PageIds, d \in BOOLEAN : UnpinPage(t, p, d)
    \/ \E i \in 1 .. PoolSize + 1, d \in 1 .. MaxData : Modify(t, i, d)
    \/ \E p \in PageIds : FlushPage(t, p)
    \/ FlushAllPages(t)
    \/ \E p \in PageIds : DeletePage(t, p)

Spec == Init /\ [][Next]_vars

(***************************************************************************)
(* Page guards.  A guard is (kind, page_, is_dirty_); page is the frame of *)
(* page_, NoFrame when page_ is null.  FetchPageBasic, FetchPageRead,      *)
(* FetchPageWrite and NewPageGuarded run FetchPage / NewPage (the actions  *)
(* above, with g set) and then the steps below.                            *)
(***************************************************************************)
MaxGuards == 4

Guard(kind, frame_id) == [kind |-> kind, page |-> frame_id, is_dirty |-> FALSE]

EraseAt(s, i) == SubSeq(s, 1, i - 1) \o SubSeq(s, i + 1, Len(s))

\* BasicPageGuard::Drop of a guard whose bpm_ is set: UnpinPage(PageId(), is_dirty_),
\* where PageId() reads page_->GetPageId() (a null page_ is dereferenced)
BasicDrop(R, pg, pt, f, is_dirty) ==
  IF f = NoFrame THEN {[ub |-> TRUE, ret |-> FALSE, R |-> R, pg |-> pg]}
  ELSE Unpin(R, pg, pt, pg[f].page_id_, is_dirty)

\* Page::RUnlatch / WUnlatch.  Unlocking a std::shared_mutex that is not locked
\* that way is undefined: the process stops (a later lock never returns) or
\* carries on.
RUnlatch(pg, f) ==
  IF pg[f].readers > 0
  THEN {[ub |-> FALSE, pg |-> [pg EXCEPT ![f].readers = @ - 1]]}
  ELSE {[ub |-> TRUE, pg |-> pg], [ub |-> FALSE, pg |-> pg]}
WUnlatch(pg, f) ==
  IF pg[f].writer
  THEN {[ub |-> FALSE, pg |-> [pg EXCEPT ![f].writer = FALSE]]}
  ELSE {[ub |-> TRUE, pg |-> pg], [ub |-> FALSE, pg |-> pg]}

\* ReadPageGuard::Drop / WritePageGuard::Drop / BasicPageGuard::Drop of guard g
DropGuard(R, pg, pt, g) ==
  LET unl == IF g.page = NoFrame \/ g.kind = "basic" THEN {[ub |-> FALSE, pg |-> pg]}
             ELSE IF g.kind = "read" THEN RUnlatch(pg, g.page)
             ELSE WUnlatch(pg, g.page)
  IN UNION {IF u.ub THEN {[ub |-> TRUE, ret |-> FALSE, R |-> R, pg |-> pg]}
            ELSE BasicDrop(R, u.pg, pt, g.page, g.is_dirty) : u \in unl}

\* the guarded call returns guard g to its caller
ReturnGuard(t, g) ==
  /\ loc' = [loc EXCEPT ![t].guards = Append(@, g), ![t].g = "page",
                        ![t].frame_id = NoFrame, ![t].page_id = INVALID_PAGE_ID]
  /\ pc' = [pc EXCEPT ![t] = "idle"]

\* the destructor of the local page_guard runs while the call returns `made`
UnwindLocal(t, local, made) ==
  \E d \in DropGuard(Rep, pages_, page_table_, local) :
    IF d.ub
    THEN /\ Stop("Drop")
         /\ UNCHANGED <<repVars, bpmVars, pc, loc>>
    ELSE /\ SetRep(d.R)
         /\ pages_' = d.pg
         /\ ReturnGuard(t, made)
         /\ UNCHANGED <<page_table_, free_list_, next_page_id_, disk, hist, aborted, treeVars>>

\* FetchPageBasic, lines 199-200: the local guard is the one returned
FetchPageBasicReturn(t) ==
  /\ ~aborted /\ pc[t] = "g_ctor" /\ loc[t].g = "basic"
  /\ ReturnGuard(t, Guard("basic", loc[t].frame_id))
  /\ UNCHANGED <<repVars, bpmVars, hist, aborted, treeVars>>

\* NewPageGuarded, lines 219-220: a second guard is returned, the local one dies
NewPageGuardedReturn(t) ==
  /\ ~aborted /\ pc[t] = "g_ctor" /\ loc[t].g = "new"
  /\ UnwindLocal(t, Guard("basic", loc[t].frame_id), Guard("basic", loc[t].frame_id))

\* FetchPageRead, line 206: page->RLatch() (page may be null)
FetchPageReadLatch(t) ==
  /\ ~aborted /\ pc[t] = "g_ctor" /\ loc[t].g = "read"
  /\ LET f == loc[t].frame_id
     IN IF f = NoFrame
        THEN /\ Stop("RLatch")
             /\ UNCHANGED <<repVars, bpmVars, pc, loc>>
        ELSE /\ ~pages_[f].writer
             /\ pages_' = [pages_ EXCEPT ![f].readers = @ + 1]
             /\ pc' = [pc EXCEPT ![t] = "g_unwind"]
             /\ UNCHANGED <<repVars, page_table_, free_list_, next_page_id_, disk,
                            loc, hist, aborted, treeVars>>

\* FetchPageRead, line 207: return {this, page}, then ~ReadPageGuard of the local
FetchPageReadReturn(t) ==
  /\ ~aborted /\ pc[t] = "g_unwind" /\ loc[t].g = "read"
  /\ UnwindLocal(t, Guard("read", loc[t].frame_id), Guard("read", loc[t].frame_id))

\* FetchPageWrite, line 213: page->WLatch()
FetchPageWriteLatch(t) ==
  /\ ~aborted /\ pc[t] = "g_ctor" /\ loc[t].g = "write"
  /\ LET f == loc[t].frame_id
     IN IF f = NoFrame
        THEN /\ Stop("WLatch")
             /\ UNCHANGED <<repVars, bpmVars, pc, loc>>
        ELSE /\ ~pages_[f].writer /\ pages_[f].readers = 0
             /\ pages_' = [pages_ EXCEPT ![f].writer = TRUE]
             /\ pc' = [pc EXCEPT ![t] = "g_unwind"]
             /\ UNCHANGED <<repVars, page_table_, free_list_, next_page_id_, disk,
                            loc, hist, aborted, treeVars>>

\* FetchPageWrite, line 214
FetchPageWriteReturn(t) ==
  /\ ~aborted /\ pc[t] = "g_unwind" /\ loc[t].g = "write"
  /\ UnwindLocal(t, Guard("write", loc[t].frame_id), Guard("write", loc[t].frame_id))

\* the caller drops (or lets go out of scope) its i-th guard
Drop(t, i) ==
  /\ ~aborted /\ pc[t] = "idle"
  /\ i \in 1 .. Len(loc[t].guards)
  /\ \E d \in DropGuard(Rep, pages_, page_table_, loc[t].guards[i]) :
       IF d.ub
       THEN /\ Stop("Drop")
            /\ UNCHANGED <<repVars, bpmVars, pc, loc>>
       ELSE /\ SetRep(d.R)
            /\ pages_' = d.pg
            /\ loc' = [loc EXCEPT ![t].guards = EraseAt(@, i)]
            /\ UNCHANGED <<page_table_, free_list_, next_page_id_, disk, pc, hist, aborted, treeVars>>

\* callers that use the pool through guards only
NextGuard ==
  \E t \in Threads :
    \/ NewPageChoose(t, "new")
    \/ \E p \in PageIds, g \in {"basic", "read", "write"} : FetchPageHit(t, p, g)
    \/ \E p \in PageIds, g \in {"basic", "read", "write"} : FetchPageChoose(t, p, g)
    \/ NewPageAssert(t)
    \/ NewPageWriteBack(t)
    \/ NewPageReset(t)
    \/ NewPageSetMeta(t)
    \/ NewPagePublish(t)
    \/ FetchPageWriteBack(t)
    \/ FetchPageRead(t)
    \/ FetchPageSetMeta(t)
    \/ FetchPagePublish(t)
    \/ FetchPageBasicReturn(t)
    \/ NewPageGuardedReturn(t)
    \/ FetchPageReadLatch(t)
    \/ FetchPageReadReturn(t)
    \/ FetchPageWriteLatch(t)
    \/ FetchPageWriteReturn(t)
    \/ \E i \in 1 .. MaxGuards : Drop(t, i)
    \/ \E p \in PageIds : DeletePage(t, p)

SpecGuard == Init /\ [][NextGuard]_vars

\* the live guards of kind in kinds on frame f, over all threads
GuardsOn(f, kinds) ==
  Cardinality({x \in UNION {{<<t, i>> : i \in 1 .. Len(loc[t].guards)} : t \in Threads} :
                 /\ loc[x[1]].guards[x[2]].page = f
                 /\ loc[x[1]].guards[x[2]].kind \in kinds})

\* C2: from the return of FetchPageBasic / FetchPageRead / FetchPageWrite /
\* NewPageGuarded until the guard is dropped, each guard accounts for one pin of
\* its page (pin count >= number of live guards on it), a read guard holds the
\* page's shared latch and a write guard its exclusive latch.
C2_GuardHoldsPinAndLatch ==
  \A f \in Frames :
    /\ pages_[f].pin_count_ >= GuardsOn(f, {"basic", "read", "write"})
    /\ pages_[f].readers >= GuardsOn(f, {"read"})
    /\ GuardsOn(f, {"write"}) > 0 => (pages_[f].writer /\ GuardsOn(f, {"write"}) = 1)

(***************************************************************************)
(* Properties of the buffer pool manager.                                  *)
(***************************************************************************)
\* thread t leaves GetFreeFrameLF with a frame in this step
Chooses(t) == pc[t] = "idle" /\ pc'[t] \in {"np_write", "fp_write"}

\* thread t owns frame f between GetFreeFrameLF and the new metadata
InWindow(t, f) ==
  /\ pc[t] \in {"np_write", "np_reset", "np_meta", "fp_write", "fp_read", "fp_meta"}
  /\ loc[t].frame_id = f

\* C1: under any interleaving of NewPage, FetchPage, UnpinPage and DeletePage the
\* pin count of every frame stays >= 0, and a frame that NewPage or FetchPage
\* obtains from the replacer's Evict has pin count 0 when it is chosen.
C1_PinCountAndVictim ==
  [][/\ \A f \in Frames : pages_'[f].pin_count_ >= 0
     /\ \A t \in Threads :
          (Chooses(t) /\ free_list_ = <<>>) => pages_[loc'[t].frame_id].pin_count_ = 0]_vars

\* the half of C1 about the sign of the pin count alone
PinCountNonNegative == \A f \in Frames : pages_[f].pin_count_ >= 0

\* frame f carries page p for the callers: it is neither free nor being refilled
HoldsPage(f, p) ==
  /\ pages_[f].page_id_ = p
  /\ ~InSeq(free_list_, f)
  /\ \A t \in Threads : ~InWindow(t, f)

\* C3: at every moment at most one frame holds a given page id, and page_table_
\* maps the id of each resident page to a frame whose page_id_ is that id; this
\* includes two threads that miss the same page at the same time.
C3_OneFramePerPage ==
  /\ \A p \in DOMAIN page_table_ : pages_[page_table_[p]].page_id_ = p
  /\ \A p \in PageIds : \A f, g \in Frames :
        (HoldsPage(f, p) /\ HoldsPage(g, p)) => f = g

\* C4: once a page was modified and unpinned with is_dirty = true, every later
\* FetchPage of it (a hit, or a miss after the frame was evicted, also while
\* another thread is evicting it) returns these bytes, until it is modified again.
C4_NoLostUpdate ==
  [][\A t \in Threads : \A p \in PageIds : \A f \in Frames :
       (/\ Len(loc'[t].held) = Len(loc[t].held) + 1
        /\ loc'[t].held = InsertHeld(loc[t].held, <<p, f>>))
       => ~Lost(p, pages_'[f].data)]_vars

\* C5: is_dirty_ is OR-assigned by UnpinPage: a set flag is cleared only by
\* FlushPage, FlushAllPages, DeletePage or the reuse of the frame after its
\* write-back, never by a later UnpinPage(p, false).
C5_DirtyIsSticky ==
  [][\A f \in Frames :
       (pages_[f].is_dirty_ /\ ~pages_'[f].is_dirty_) =>
         \/ InSeq(free_list_', f) /\ ~InSeq(free_list_, f)
         \/ \E t \in Threads : InWindow(t, f) /\ pc'[t] \in {"np_publish", "fp_publish"}
         \/ /\ pages_'[f].pin_count_ = pages_[f].pin_count_
            /\ pages_[f].page_id_ \in PageIds
            /\ disk'[pages_[f].page_id_] = pages_[f].data]_vars

\* C6: when NewPage or FetchPage reuses a frame whose is_dirty_ is set, WritePage
\* of the old page id and bytes is issued before the buffer is zeroed or read
\* into and before page_id_ changes.
C6_WriteBackBeforeReuse ==
  \A t \in Threads :
    (pc[t] \in {"np_meta", "np_publish", "fp_meta", "fp_publish"} /\ loc[t].was_dirty)
      => loc[t].flushed

\* a dirty frame was reused by NewPage and by FetchPage, its bytes written before
C6_Witness ==
  \E t, u \in Threads :
    /\ pc[t] = "np_meta" /\ loc[t].was_dirty /\ loc[t].flushed
    /\ pages_[loc[t].frame_id].data = 0
    /\ disk[pages_[loc[t].frame_id].page_id_] # 0
    /\ pc[u] = "fp_meta" /\ loc[u].was_dirty /\ loc[u].flushed

\* C8: with free_list_ empty and every resident frame pinned, NewPage and a
\* FetchPage of a non-resident page return null and change nothing.
C8_ExhaustedPoolReturnsNull ==
  [][PoolFull =>
       /\ \A t \in Threads : ~Chooses(t)
       /\ hist'.stopped # "GetFreeFrameLF"]_vars

(***************************************************************************)
(* The LRU-K replacer alone, driven by one caller.  Beside the replacer    *)
(* the caller's view is kept in hist:                                      *)
(*   acc[f]  the timestamps of the accesses recorded for f since it was    *)
(*           last evicted or removed, oldest first (<<>>: not tracked)     *)
(*   ev[f]   whether f is evictable, as last set                           *)
(*   ret     the last call if it was Evict: what it returned, and the      *)
(*           frames the eviction policy allows (want)                      *)
(***************************************************************************)
NoRet == [op |-> "none", ok |-> FALSE, fid |-> NoFrame, want |-> {}]
NoView == [acc |-> [f \in Frames |-> <<>>], ev |-> [f \in Frames |-> FALSE],
           ret |-> NoRet, stopped |-> "none"]

\* the evictable frames with fewer than k recorded accesses / with k or more
InfiniteDistance(k) ==
  {f \in Frames : hist.acc[f] # <<>> /\ hist.ev[f] /\ Len(hist.acc[f]) < k}
FiniteDistance(k) ==
  {f \in Frames : hist.acc[f] # <<>> /\ hist.ev[f] /\ Len(hist.acc[f]) >= k}

\* the timestamp of the k-th most recent access of f
KthRecent(f, k) == hist.acc[f][Len(hist.acc[f]) - k + 1]

\* The frames with the largest backward k-distance among the evictable ones:
\* +infinity before any finite distance, the least recently used among the
\* +infinity ones, the smallest k-th most recent timestamp among the others.
LargestBackwardKDistance(k) ==
  IF InfiniteDistance(k) # {}
  THEN {f \in InfiniteDistance(k) :
          \A g \in InfiniteDistance(k) : Last(hist.acc[f]) <= Last(hist.acc[g])}
  ELSE {f \in FiniteDistance(k) :
          \A g \in FiniteDistance(k) : KthRecent(f, k) <= KthRecent(g, k)}

\* the replacer call ended in undefined behaviour
StopReplacer(op) ==
  /\ Stop(op)
  /\ UNCHANGED <<repVars, bpmVars, pc, loc>>

CallRecordAccess(frame_id) ==
  /\ ~aborted /\ current_timestamp_ < MaxTimestamp
  /\ \E o \in RecordAccess(Rep, frame_id) :
       IF o.ub THEN StopReplacer("RecordAccess")
       ELSE /\ SetRep(o.R)
            /\ hist' = [hist EXCEPT !.acc[frame_id] = Append(@, current_timestamp_),
                                    !.ev[frame_id] = IF hist.acc[frame_id] = <<>>
                                                     THEN TRUE ELSE @,
                                    !.ret = NoRet]
            /\ UNCHANGED <<bpmVars, pc, loc, aborted, treeVars>>

CallRecordAccessAndSetEvictable(frame_id, set_evictable) ==
  /\ ~aborted /\ current_timestamp_ < MaxTimestamp
  /\ \E o \in RecordAccessAndSetEvictable(Rep, frame_id, set_evictable) :
       IF o.ub THEN StopReplacer("RecordAccessAndSetEvictable")
       ELSE /\ SetRep(o.R)
            /\ hist' = [hist EXCEPT !.acc[frame_id] = Append(@, current_timestamp_),
                                    !.ev[frame_id] = set_evictable,
                                    !.ret = NoRet]
            /\ UNCHANGED <<bpmVars, pc, loc, aborted, treeVars>>

CallSetEvictable(frame_id, set_evictable) ==
  /\ ~aborted
  /\ \E o \in SetEvictable(Rep, frame_id, set_evictable) :
       IF o.ub THEN StopReplacer("SetEvictable")
       ELSE /\ SetRep(o.R)
            /\ hist' = [hist EXCEPT !.ev[frame_id] = set_evictable, !.ret = NoRet]
            /\ UNCHANGED <<bpmVars, pc, loc, aborted, treeVars>>

CallRemove(frame_id) ==
  /\ ~aborted
  /\ \E o \in Remove(Rep, frame_id) :
       IF o.ub THEN StopReplacer("Remove")
       ELSE /\ SetRep(o.R)
            /\ hist' = [hist EXCEPT !.acc[frame_id] = <<>>, !.ev[frame_id] = FALSE,
                                    !.ret = NoRet]
            /\ UNCHANGED <<bpmVars, pc, loc, aborted, treeVars>>

CallEvict ==
  /\ ~aborted
  /\ \E o \in Evict(Rep) :
       LET ret == [op |-> "Evict", ok |-> o.ok, fid |-> o.fid,
                   want |-> LargestBackwardKDistance(k_)]
       IN IF o.ub
          THEN /\ aborted' = TRUE
               /\ hist' = [hist EXCEPT !.ret = ret, !.stopped = "Evict"]
               /\ UNCHANGED <<repVars, bpmVars, pc, loc, treeVars>>
          ELSE /\ SetRep(o.R)
               /\ hist' = IF o.ok /\ o.fid \in Frames
                          THEN [hist EXCEPT !.acc[o.fid] = <<>>, !.ev[o.fid] = FALSE,
                                            !.ret = ret]
                          ELSE [hist EXCEPT !.ret = ret]
               /\ UNCHANGED <<bpmVars, pc, loc, aborted, treeVars>>

\* the largest k of a replacer that is checked alone
MaxReplacerK == 3

\* LRUKReplacer::LRUKReplacer(num_frames = PoolSize, k), k in 1 .. MaxReplacerK
InitReplacer ==
  /\ k_ \in 1 .. MaxReplacerK
  /\ heap = [a \in Addrs |-> FreshNode]
  /\ node_list_less_k_ = <<>>
  /\ node_list_more_k_ = <<>>
  /\ node_store_ = <<>>
  /\ curr_size_ = 0
  /\ current_timestamp_ = 0
  /\ pages_ = [f \in Frames |-> [page_id_ |-> INVALID_PAGE_ID, pin_count_ |-> 0,
                                  is_dirty_ |-> FALSE, data |-> 0,
                                  readers |-> 0, writer |-> FALSE]]
  /\ page_table_ = <<>>
  /\ free_list_ = <<>>
  /\ next_page_id_ = 0
  /\ disk = [p \in PageIds |-> 0]
  /\ pc = [t \in Threads |-> "idle"]
  /\ loc = [t \in Threads |-> NoLoc]
  /\ hist = NoView
  /\ aborted = FALSE
  /\ root_page_id_ = INVALID_PAGE_ID
  /\ tree_pages = [p \in TreePageIds |-> BlankPage]
  /\ leaf_max_size_ = LeafMaxSize + 1
  /\ internal_max_size_ = InternalMaxSize + 1

NextReplacer ==
  \/ \E f \in Frames : CallRecordAccess(f)
  \/ \E f \in Frames, b \in BOOLEAN : CallRecordAccessAndSetEvictable(f, b)
  \/ \E f \in Frames, b \in BOOLEAN : CallSetEvictable(f, b)
  \/ \E f \in Frames : CallRemove(f)
  \/ CallEvict

SpecReplacer == InitReplacer /\ [][NextReplacer]_vars

\* C7: for every sequence of RecordAccess / SetEvictable / Remove calls and every
\* k >= 1, Evict returns the evictable frame with the largest backward
\* k-distance (fewer than k accesses: +infinity, least recently used first).
C7_EvictLargestBackwardKDistance ==
  (hist.ret.op = "Evict" /\ hist.ret.want # {}) =>
     (hist.ret.ok /\ hist.ret.fid \in hist.ret.want)

(***************************************************************************)
(* B+ tree pages.  A page is (page_type, size, max_size, next_page_id_,     *)
(* array); array keeps what was last stored in every slot, also in the      *)
(* slots at and beyond size.                                                *)
(***************************************************************************)
IsLeafPage(page) == page.page_type = "LEAF"

\* ceil(max_size / 2)
GetMinSize(page) == (page.max_size + 1) \div 2

\* array_[i] of a page; slots that are not modelled were never written
PairAt(page, i) == IF i \in Slots THEN page.array[i] ELSE ZeroPair
KeyAt(page, i) == PairAt(page, i).k
ValueAt(page, i) == PairAt(page, i).v

\* B_PLUS_TREE_LEAF_PAGE_TYPE::Init
LeafInit(page, max_size) ==
  [page EXCEPT !.page_type = "LEAF", !.size = 0, !.max_size = max_size,
               !.next_page_id_ = INVALID_PAGE_ID]

\* B_PLUS_TREE_INTERNAL_PAGE_TYPE::Init
InternalInit(page, max_size) ==
  [page EXCEPT !.page_type = "INTERNAL", !.size = 1, !.max_size = max_size]

\* InsertAt of the leaf and of the internal page
InsertAt(page, key, value, index) ==
  IF page.size >= page.max_size \/ index < 0 \/ index > page.size
  THEN [ok |-> FALSE, page |-> page]
  ELSE [ok |-> TRUE,
        page |-> [page EXCEPT
                    !.array = [i \in Slots |->
                                 IF i = index THEN [k |-> key, v |-> value]
                                 ELSE IF i > index /\ i <= page.size THEN page.array[i - 1]
                                 ELSE page.array[i]],
                    !.size = @ + 1]]

SetKeyAt(page, key, index) ==
  IF index \in Slots THEN [page EXCEPT !.array[index].k = key] ELSE page
SetValueAt(page, value, index) ==
  IF index \in Slots THEN [page EXCEPT !.array[index].v = value] ELSE page

\* B_PLUS_TREE_INTERNAL_PAGE_TYPE::RemoveAt: copies array_[i + 1] for i up to size - 1
RemoveAt(page, index) ==
  [page EXCEPT !.array = [i \in Slots |->
                            IF i >= index /\ i < page.size THEN PairAt(page, i + 1)
                            ELSE page.array[i]],
               !.size = @ - 1]

\* the pairs [start, end) of src copied to dst from slot 0 (both SplitTo)
MoveUpperHalf(src, dst) ==
  LET end == src.size
      start == end \div 2
  IN [src |-> [src EXCEPT !.size = start],
      dst |-> [dst EXCEPT !.array = [i \in Slots |->
                                       IF i < end - start THEN PairAt(src, start + i)
                                       ELSE dst.array[i]],
                          !.size = end - start]]

\* B_PLUS_TREE_LEAF_PAGE_TYPE::SplitTo
LeafSplitTo(src, dst, dst_page_id) ==
  LET m == MoveUpperHalf(src, dst)
  IN [src |-> [m.src EXCEPT !.next_page_id_ = dst_page_id],
      dst |-> [m.dst EXCEPT !.next_page_id_ = src.next_page_id_]]

\* a SplitTo that starts one slot later (start = (end >> 1) + 1)
InternalSplitToLate(src, dst) ==
  LET end == src.size
      start == end \div 2 + 1
  IN [src |-> [src EXCEPT !.size = start],
      dst |-> [dst EXCEPT !.array = [i \in Slots |->
                                       IF i < end - start THEN PairAt(src, start + i)
                                       ELSE dst.array[i]],
                          !.size = end - start]]

\* B_PLUS_TREE_INTERNAL_PAGE_TYPE::SplitTo
InternalSplitTo(src, dst) == MoveUpperHalf(src, dst)

\* BorrowFromLeft of the leaf and of the internal page
BorrowFromLeft(page, brother_page_left, borrow_cnt) ==
  IF brother_page_left.size < borrow_cnt + GetMinSize(page)
  THEN [ok |-> FALSE, page |-> page, brother |-> brother_page_left]
  ELSE LET borrow_index == brother_page_left.size - borrow_cnt
       IN [ok |-> TRUE,
           page |-> [page EXCEPT
                       !.array = [i \in Slots |->
                                    IF i < borrow_cnt
                                    THEN PairAt(brother_page_left, borrow_index + i)
                                    ELSE IF i <= GetMinSize(page) - 1
                                    THEN PairAt(page, i - borrow_cnt)
                                    ELSE page.array[i]],
                       !.size = GetMinSize(page)],
           brother |-> [brother_page_left EXCEPT !.size = borrow_index]]

\* BorrowFromRight of the leaf and of the internal page
BorrowFromRight(page, brother_page_right, borrow_cnt) ==
  IF brother_page_right.size < borrow_cnt + GetMinSize(page)
  THEN [ok |-> FALSE, page |-> page, brother |-> brother_page_right]
  ELSE [ok |-> TRUE,
        page |-> [page EXCEPT
                    !.array = [i \in Slots |->
                                 IF i >= page.size /\ i < page.size + borrow_cnt
                                 THEN PairAt(brother_page_right, i - page.size)
                                 ELSE page.array[i]],
                    !.size = @ + borrow_cnt],
        brother |-> [brother_page_right EXCEPT
                       !.array = [i \in Slots |->
                                    IF i < brother_page_right.size - borrow_cnt
                                    THEN PairAt(brother_page_right, i + borrow_cnt)
                                    ELSE brother_page_right.array[i]],
                       !.size = @ - borrow_cnt]]

\* MergeToLeft of the leaf and of the internal page: the new left brother
MergeToLeft(page, brother_page_left) ==
  [brother_page_left EXCEPT
     !.array = [i \in Slots |->
                  IF i >= brother_page_left.size /\ i < brother_page_left.size + page.size
                  THEN PairAt(page, i - brother_page_left.size)
                  ELSE brother_page_left.array[i]],
     !.size = @ + page.size]

\* MergeToRight of the leaf and of the internal page: the new right brother.
\* The second loop runs i = size .. 0 and stores array_[i] at slot i - 1: the
\* pair of slot size (beyond the page's pairs) lands in slot size - 1, and
\* array_[0] is stored at array_[-1], in front of the brother's array.
MergeToRight(page, brother_page_right) ==
  [brother_page_right EXCEPT
     !.array = [i \in Slots |->
                  IF i < page.size THEN PairAt(page, i + 1)
                  ELSE IF i < page.size + brother_page_right.size
                  THEN PairAt(brother_page_right, i - page.size)
                  ELSE brother_page_right.array[i]],
     !.size = @ + page.size]

\* BPlusTree::UpperBound(const LeafPage*), from = 0, and
\* BPlusTree::UpperBound(const InternalPage*), from = 1
RECURSIVE UpperBoundFrom(_, _, _)
UpperBoundFrom(page, key, index) ==
  IF index < page.size /\ KeyAt(page, index) <= key
  THEN UpperBoundFrom(page, key, index + 1)
  ELSE index
UpperBoundLeaf(page, key) == UpperBoundFrom(page, key, 0)
UpperBoundInternal(page, key) == UpperBoundFrom(page, key, 1)

(***************************************************************************)
(* The B+ tree.  Its operations are functions of a record st:               *)
(*   pages, root, next : the tree's pages, root_page_id_ of the header      *)
(*                       page, next_page_id_ of the pool                    *)
(*   ws                : ctx.write_set_, a guard being the id of its page   *)
(*                       (INVALID_PAGE_ID: a guard that holds no page)      *)
(*   hit               : the undefined operations executed so far           *)
(*   log               : the stores made so far, in the order of the code:  *)
(*                       (page id, new bytes of the page), or the new       *)
(*                       root_page_id_ of the header page                   *)
(* and of u, which fixes what the build does at an undefined operation.     *)
(***************************************************************************)
Page(st, page_id) == IF page_id \in TreePageIds THEN st.pages[page_id] ELSE BlankPage
PageStore(page_id, page) ==
  [page_id |-> page_id, page |-> page, root |-> INVALID_PAGE_ID]
RootStore(root) == [page_id |-> HEADER_PAGE_ID, page |-> BlankPage, root |-> root]
SetPage(st, page_id, page) ==
  [st EXCEPT !.pages[page_id] = page, !.log = Append(@, PageStore(page_id, page))]
Hit(st, op) == [st EXCEPT !.hit = @ \cup {op}]

\* Context::IsRootPage
IsRootPage(ctx_root_page_id_, page_id) == page_id = ctx_root_page_id_

\* ctx.write_set_.back() taken as a reference; on an empty deque it is undefined
Back(st) ==
  IF st.ws = <<>> THEN [st |-> Hit(st, "write_set_.back"), guard |-> INVALID_PAGE_ID]
  ELSE [st |-> st, guard |-> Last(st.ws)]

\* cur_guard = std::move(ctx.write_set_.back()); ctx.write_set_.pop_back();
PopBack(st) ==
  IF st.ws = <<>> THEN [st |-> Hit(st, "write_set_.back"), guard |-> INVALID_PAGE_ID]
  ELSE [st |-> [st EXCEPT !.ws = Front(st.ws)], guard |-> Last(st.ws)]

\* InsertRecursively, lines 577-629: split the full cur_page and update its father
InsertSplit(st, page_id_to_fetch, cur_guard, ctx_root_page_id_) ==
  IF cur_guard = INVALID_PAGE_ID
  THEN [st |-> Hit(st, "PageId"), success |-> FALSE]
  ELSE
    LET cur_page == Page(st, page_id_to_fetch)
        is_root == IsRootPage(ctx_root_page_id_, cur_guard)
        new_split_page_id == st.next
        new_root_page_id == st.next + 1
        split == IF IsLeafPage(cur_page)
                 THEN LeafSplitTo(cur_page, LeafInit(BlankPage, leaf_max_size_),
                                  new_split_page_id)
                 ELSE InternalSplitTo(cur_page, InternalInit(BlankPage, internal_max_size_))
        key0 == KeyAt(split.dst, 0)
        b == Back(st)
        st1 == SetPage(SetPage([b.st EXCEPT !.next = IF is_root THEN @ + 2 ELSE @ + 1],
                               new_split_page_id, split.dst),
                       page_id_to_fetch, split.src)
    IN IF b.guard = INVALID_PAGE_ID
       THEN [st |-> Hit(st1, "AsMut"), success |-> FALSE]
       ELSE IF is_root
       THEN LET r == InsertAt(SetValueAt(InternalInit(BlankPage, internal_max_size_),
                                         cur_guard, 0),
                              key0, new_split_page_id, 1)
                st2 == SetPage(st1, new_root_page_id, r.page)
            IN [st |-> IF b.guard = HEADER_PAGE_ID
                       THEN [st2 EXCEPT !.root = new_root_page_id,
                                        !.log = Append(@, RootStore(new_root_page_id))]
                       ELSE st2,
                success |-> r.ok]
       ELSE LET father_page == Page(st1, b.guard)
                r == InsertAt(father_page, key0, new_split_page_id,
                              UpperBoundInternal(father_page, key0))
            IN [st |-> SetPage(st1, b.guard, r.page), success |-> r.ok]

\* BPlusTree::InsertRecursively
RECURSIVE InsertRecursively(_, _, _, _, _, _)
InsertRecursively(st, page_id_to_fetch, ctx_root_page_id_, key, value, u) ==
  IF page_id_to_fetch = INVALID_PAGE_ID
  THEN [st |-> st, success |-> FALSE]
  ELSE IF page_id_to_fetch \notin TreePageIds
  THEN [st |-> Hit(st, "FetchPageWrite"), success |-> FALSE]
  ELSE
    LET cur_page == Page(st, page_id_to_fetch)
        st1 == IF cur_page.size < cur_page.max_size - 1
               THEN [st EXCEPT !.ws = <<>>] ELSE st
        d == IF IsLeafPage(cur_page)
             THEN LET index == UpperBoundLeaf(cur_page, key)
                      \* KeyAt(index - 1) with index = 0 reads array_[-1]
                      equal == IF index = 0 THEN u.equal
                               ELSE KeyAt(cur_page, index - 1) = key
                      st2 == IF index = 0 THEN Hit(st1, "KeyAt") ELSE st1
                      r == InsertAt(cur_page, key, value, index)
                  IN IF equal
                     THEN [ret |-> TRUE, st |-> st2, success |-> FALSE,
                           guard |-> page_id_to_fetch]
                     ELSE [ret |-> FALSE, st |-> SetPage(st2, page_id_to_fetch, r.page),
                           success |-> r.ok, guard |-> page_id_to_fetch]
             ELSE LET index == UpperBoundInternal(cur_page, key)
                      r == InsertRecursively([st1 EXCEPT !.ws = Append(@, page_id_to_fetch)],
                                             ValueAt(cur_page, index - 1),
                                             ctx_root_page_id_, key, value, u)
                      b == PopBack(r.st)
                  IN [ret |-> FALSE, st |-> b.st, success |-> r.success, guard |-> b.guard]
        now == Page(d.st, page_id_to_fetch)
    IN IF d.ret THEN [st |-> d.st, success |-> FALSE]
       ELSE IF now.size < now.max_size \/ ~d.success
       THEN [st |-> d.st, success |-> d.success]
       ELSE InsertSplit(d.st, page_id_to_fetch, d.guard, ctx_root_page_id_)

\* BPlusTree::Insert
TreeInsert(st, key, value, u) ==
  IF st.root = INVALID_PAGE_ID
  THEN LET r == InsertAt(LeafInit(BlankPage, leaf_max_size_), key, value, 0)
       IN [st |-> SetPage([st EXCEPT !.root = st.next, !.next = @ + 1,
                                      !.log = Append(@, RootStore(st.next))],
                          st.next, r.page),
           success |-> TRUE]
  ELSE InsertRecursively([st EXCEPT !.ws = <<HEADER_PAGE_ID>>], st.root, st.root,
                         key, value, u)

\* BPlusTree::GetValue from page_id_to_fetch on: the result vector, and whether
\* the call returns (depth counts the pages visited)
RECURSIVE GetValueFrom(_, _, _, _)
GetValueFrom(pages, page_id_to_fetch, key, depth) ==
  IF page_id_to_fetch = INVALID_PAGE_ID
  THEN [found |-> FALSE, result |-> <<>>, returns |-> TRUE]
  ELSE IF depth > MaxTreePages
  THEN [found |-> FALSE, result |-> <<>>, returns |-> FALSE]
  ELSE
    LET page == IF page_id_to_fetch \in TreePageIds THEN pages[page_id_to_fetch]
                ELSE BlankPage
    IN IF IsLeafPage(page)
       THEN LET hits == SelectSeq([i \in 1 .. page.size |-> PairAt(page, i - 1)],
                                  LAMBDA e : e.k = key)
            IN [found |-> hits # <<>>, result |-> [i \in 1 .. Len(hits) |-> hits[i].v],
                returns |-> TRUE]
       ELSE GetValueFrom(pages, ValueAt(page, UpperBoundInternal(page, key) - 1), key,
                         depth + 1)

TreeGetValue(pages, root, key) == GetValueFrom(pages, root, key, 0)

\* RemoveRecursively, lines 656-666: take the pairs with key out of the leaf
RECURSIVE LowerBoundFrom(_, _, _)
LowerBoundFrom(page, key, index) ==
  IF index < page.size /\ KeyAt(page, index) < key
  THEN LowerBoundFrom(page, key, index + 1)
  ELSE index

LeafRemoveKey(page, key) ==
  LET lowerbound == LowerBoundFrom(page, key, 0)
      upperbound == UpperBoundFrom(page, key, lowerbound)
      len == upperbound - lowerbound
  IN [page EXCEPT !.array = [i \in Slots |->
                               IF i >= lowerbound /\ i < page.size - len
                               THEN PairAt(page, i + len)
                               ELSE page.array[i]],
                  !.size = @ - len]

\* father_guard.Drop(): the guard stays in write_set_ and holds no page any more
DropBack(st) == [st EXCEPT !.ws = Append(Front(@), INVALID_PAGE_ID)]

\* DeletePage of a page nobody has pinned: the frame is reset, the page is gone
DeleteTreePage(st, page_id) == SetPage(st, page_id, BlankPage)

\* header_guard.AsMut<BPlusTreeHeaderPage>()->root_page_id_ = root
SetRoot(st, root) ==
  LET b == Back(st)
  IN IF b.guard = INVALID_PAGE_ID THEN Hit(b.st, "AsMut")
     ELSE IF b.guard = HEADER_PAGE_ID
     THEN [b.st EXCEPT !.root = root, !.log = Append(@, RootStore(root))]
     ELSE b.st

\* RemoveRecursively, lines 679-729: the leaf borrows from or merges with a brother
LeafRebalance(st0, page_id_to_fetch, min_size) ==
  LET b == Back(st0)
      st == b.st
      father_page == Page(st, b.guard)
      cur_page == Page(st, page_id_to_fetch)
      index == UpperBoundInternal(father_page, KeyAt(cur_page, 0)) - 1
      borrow_cnt == min_size - cur_page.size
      page_id_left == ValueAt(father_page, index - 1)
      page_id_right == ValueAt(father_page, index + 1)
      bl == BorrowFromLeft(cur_page, Page(st, page_id_left), borrow_cnt)
      br == BorrowFromRight(cur_page, Page(st, page_id_right), borrow_cnt)
  IN IF b.guard = INVALID_PAGE_ID THEN Hit(st, "AsMut")
     ELSE IF index > 0 /\ bl.ok
     THEN SetPage(SetPage(SetPage(st, page_id_to_fetch, bl.page), page_id_left, bl.brother),
                  b.guard, SetKeyAt(father_page, KeyAt(bl.page, 0), index))
     ELSE IF index < father_page.size - 1 /\ br.ok
     THEN SetPage(SetPage(SetPage(st, page_id_to_fetch, br.page), page_id_right, br.brother),
                  b.guard, SetKeyAt(father_page, KeyAt(br.brother, 0), index + 1))
     ELSE IF index > 0
     THEN DeleteTreePage(
            DropBack(SetPage(SetPage(st, page_id_left,
                                     MergeToLeft(cur_page, Page(st, page_id_left))),
                             b.guard, RemoveAt(father_page, index))),
            page_id_to_fetch)
     ELSE IF index < father_page.size - 1
     THEN DeleteTreePage(
            DropBack(SetPage(SetPage(Hit(st, "array_[-1]"), page_id_right,
                                     MergeToRight(cur_page, Page(st, page_id_right))),
                             b.guard, RemoveAt(father_page, index))),
            page_id_to_fetch)
     ELSE st

\* RemoveRecursively, lines 754-809: the internal page borrows or merges
InternalRebalance(st0, page_id_to_fetch, min_size) ==
  LET b == Back(st0)
      st == b.st
      father_page == Page(st, b.guard)
      cur_page == Page(st, page_id_to_fetch)
      index == UpperBoundInternal(father_page, KeyAt(cur_page, 1)) - 1
      borrow_cnt == min_size - cur_page.size
      page_id_left == ValueAt(father_page, index - 1)
      page_id_right == ValueAt(father_page, index + 1)
      bl == BorrowFromLeft(cur_page, Page(st, page_id_left), borrow_cnt)
      br == BorrowFromRight(cur_page, Page(st, page_id_right), borrow_cnt)
      curL == SetKeyAt(bl.page, KeyAt(father_page, index), borrow_cnt)
      curR == SetKeyAt(br.page, KeyAt(father_page, index + 1),
                       br.page.size - 1 - borrow_cnt)
  IN IF b.guard = INVALID_PAGE_ID THEN Hit(st, "AsMut")
     ELSE IF index > 0 /\ bl.ok
     THEN SetPage(SetPage(SetPage(st, page_id_to_fetch, curL), page_id_left, bl.brother),
                  b.guard, SetKeyAt(father_page, KeyAt(curL, 0), index))
     ELSE IF index < father_page.size - 1 /\ br.ok
     THEN SetPage(SetPage(SetPage(st, page_id_to_fetch, curR), page_id_right, br.brother),
                  b.guard, SetKeyAt(father_page, KeyAt(br.brother, 0), index + 1))
     ELSE IF index > 0
     THEN LET cur0 == SetKeyAt(cur_page, KeyAt(father_page, index), 0)
          IN DeleteTreePage(
               DropBack(SetPage(SetPage(st, page_id_left,
                                        MergeToLeft(cur0, Page(st, page_id_left))),
                                b.guard, RemoveAt(father_page, index))),
               page_id_to_fetch)
     ELSE IF index < father_page.size - 1
     THEN LET brother0 == SetKeyAt(Page(st, page_id_right), KeyAt(father_page, index), 0)
          IN DeleteTreePage(
               DropBack(SetPage(SetPage(Hit(st, "array_[-1]"), page_id_right,
                                        MergeToRight(cur_page, brother0)),
                                b.guard, RemoveAt(father_page, index))),
               page_id_to_fetch)
     ELSE st

\* BPlusTree::RemoveRecursively
RECURSIVE RemoveRecursively(_, _, _, _)
RemoveRecursively(st, page_id_to_fetch, ctx_root_page_id_, key) ==
  LET cur_page == Page(st, page_id_to_fetch)
      min_size == GetMinSize(cur_page)
      cur_size == cur_page.size
      is_root == IsRootPage(ctx_root_page_id_, page_id_to_fetch)
      release_flag == IF is_root
                      THEN \/ IsLeafPage(cur_page) /\ cur_size > 1
                           \/ ~IsLeafPage(cur_page) /\ cur_size > 2
                      ELSE cur_size > min_size
      st1 == IF release_flag THEN [st EXCEPT !.ws = <<>>] ELSE st
  IN IF page_id_to_fetch \notin TreePageIds THEN Hit(st, "FetchPageWrite")
     ELSE IF IsLeafPage(cur_page)
     THEN LET st2 == SetPage(st1, page_id_to_fetch, LeafRemoveKey(cur_page, key))
              now == Page(st2, page_id_to_fetch)
          IN IF is_root
             THEN IF now.size <= 0 THEN SetRoot(st2, INVALID_PAGE_ID) ELSE st2
             ELSE IF now.size >= min_size THEN st2
             ELSE LeafRebalance(st2, page_id_to_fetch, min_size)
     ELSE LET index == UpperBoundInternal(cur_page, key) - 1
              r == RemoveRecursively([st1 EXCEPT !.ws = Append(@, page_id_to_fetch)],
                                     ValueAt(cur_page, index), ctx_root_page_id_, key)
              b == PopBack(r)
              now == Page(b.st, page_id_to_fetch)
          IN IF is_root
             THEN IF now.size < 2
                  THEN DeleteTreePage(SetRoot(b.st, ValueAt(now, 0)), page_id_to_fetch)
                  ELSE b.st
             ELSE IF now.size >= min_size THEN b.st
             \* cur_guard.AsMut of a guard that holds no page
             ELSE IF b.guard = INVALID_PAGE_ID THEN Hit(b.st, "AsMut")
             ELSE InternalRebalance(b.st, page_id_to_fetch, min_size)

\* BPlusTree::Remove
TreeRemove(st, key) ==
  IF st.root = INVALID_PAGE_ID THEN st
  ELSE RemoveRecursively([st EXCEPT !.ws = <<HEADER_PAGE_ID>>], st.root, st.root, key)

(***************************************************************************)
(* The B+ tree under one caller.  The pool is taken to be large enough to   *)
(* keep every page of the tree resident; its own variables do not move.     *)
(***************************************************************************)
\* pages one Insert may take from NewPageGuarded
MaxNewPages == 2
\* Insert and Remove calls made in one run
MaxCalls == 6

TreeState == [pages |-> tree_pages, root |-> root_page_id_, next |-> next_page_id_,
              ws |-> <<>>, hit |-> {}, log |-> <<>>]

\* the operations of the tree whose behaviour is undefined:
\*   Drop            : the unlatch of a guard that holds no latch; every call
\*                     of the tree destroys such a guard (the header page's)
\*   write_set_.back : back() / pop_back() of the empty write_set_
\*   array_[-1]      : the store to array_[-1]
\*   KeyAt           : the key read from array_[-1]; u.equal tells whether it
\*                     compares equal to the searched key
\* At each of the first three a build stops the process or carries on; the use
\* of a guard that holds no page, or of a page id that is no page, stops it.
UBChoices == [equal : BOOLEAN]

StopsOf(hit) ==
  IF hit \cap {"FetchPageWrite", "PageId", "AsMut", "GetValue"} # {}
  THEN hit \cap {"FetchPageWrite", "PageId", "AsMut", "GetValue"}
  ELSE {"none", "Drop"} \cup (hit \cap {"write_set_.back", "array_[-1]"})

NoTreeRet == [op |-> "none", ok |-> FALSE, absent |-> FALSE]
\* contents: the value each key should map to (0: none) by the calls made so far;
\* gone: the keys inserted and then removed; removed: Remove was called
NoTreeHist == [contents |-> [k \in Keys |-> 0], gone |-> {}, removed |-> FALSE,
               calls |-> 0, ret |-> NoTreeRet, stopped |-> "none"]

StopTree(op, name) ==
  /\ aborted' = TRUE
  /\ hist' = [hist EXCEPT !.stopped = name, !.ret = [NoTreeRet EXCEPT !.op = op],
                          !.calls = IF op = "GetValue" THEN @ ELSE @ + 1]
  /\ UNCHANGED <<repVars, bpmVars, pc, loc, treeVars>>

SetTree(st) ==
  /\ tree_pages' = st.pages
  /\ root_page_id_' = st.root
  /\ next_page_id_' = st.next
  /\ UNCHANGED <<repVars, pages_, page_table_, free_list_, disk, pc, loc, aborted,
                 leaf_max_size_, internal_max_size_>>

CallTreeInsert(key, value) ==
  /\ ~aborted
  /\ hist.calls < MaxCalls
  /\ next_page_id_ + MaxNewPages <= MaxTreePages + 1
  /\ \E u \in UBChoices :
       LET r == TreeInsert(TreeState, key, value, u)
           absent == hist.contents[key] = 0
       IN \E stop \in StopsOf(r.st.hit) :
          IF stop # "none"
          THEN StopTree("Insert", stop)
          ELSE /\ SetTree(r.st)
               /\ hist' = [hist EXCEPT
                             !.contents = IF absent THEN [@ EXCEPT ![key] = value] ELSE @,
                             !.gone = IF absent THEN @ \ {key} ELSE @,
                             !.calls = @ + 1,
                             !.ret = [NoTreeRet EXCEPT !.op = "Insert", !.ok = r.success,
                                                       !.absent = absent]]

CallTreeRemove(key) ==
  /\ ~aborted
  /\ hist.calls < MaxCalls
  /\ LET st == TreeRemove(TreeState, key)
     IN \E stop \in StopsOf(st.hit) :
          IF stop # "none"
          THEN StopTree("Remove", stop)
          ELSE /\ SetTree(st)
               /\ hist' = [hist EXCEPT
                             !.contents[key] = 0,
                             !.gone = IF hist.contents[key] # 0 THEN @ \cup {key} ELSE @,
                             !.removed = TRUE,
                             !.calls = @ + 1,
                             !.ret = [NoTreeRet EXCEPT !.op = "Remove"]]

CallTreeGetValue(key) ==
  /\ ~aborted
  /\ LET r == TreeGetValue(tree_pages, root_page_id_, key)
     IN \E stop \in StopsOf(IF r.returns THEN {} ELSE {"GetValue"}) :
          IF stop # "none"
          THEN StopTree("GetValue", stop)
          ELSE /\ hist' = [hist EXCEPT
                             !.ret = [NoTreeRet EXCEPT !.op = "GetValue", !.ok = r.found]]
               /\ UNCHANGED <<repVars, bpmVars, pc, loc, aborted, treeVars>>

\* BPlusTree::BPlusTree on header page HEADER_PAGE_ID, the first page of the pool
InitTree ==
  /\ k_ = MaxK
  /\ heap = [a \in Addrs |-> FreshNode]
  /\ node_list_less_k_ = <<>>
  /\ node_list_more_k_ = <<>>
  /\ node_store_ = <<>>
  /\ curr_size_ = 0
  /\ current_timestamp_ = 0
  /\ pages_ = [f \in Frames |-> [page_id_ |-> INVALID_PAGE_ID, pin_count_ |-> 0,
                                  is_dirty_ |-> FALSE, data |-> 0,
                                  readers |-> 0, writer |-> FALSE]]
  /\ page_table_ = <<>>
  /\ free_list_ = [i \in 1 .. PoolSize |-> i - 1]
  /\ next_page_id_ = HEADER_PAGE_ID + 1
  /\ disk = [p \in PageIds |-> 0]
  /\ pc = [t \in Threads |-> "idle"]
  /\ loc = [t \in Threads |-> NoLoc]
  /\ hist = NoTreeHist
  /\ aborted = FALSE
  /\ root_page_id_ = INVALID_PAGE_ID
  /\ tree_pages = [p \in TreePageIds |-> BlankPage]
  /\ \E leaf_max_size \in LeafMaxSizes : leaf_max_size_ = leaf_max_size + 1
  /\ internal_max_size_ = InternalMaxSize + 1

NextTree ==
  \/ \E key \in Keys, value \in Values : CallTreeInsert(key, value)
  \/ \E key \in Keys : CallTreeRemove(key)
  \/ \E key \in Keys : CallTreeGetValue(key)

SpecTree == InitTree /\ [][NextTree]_vars

\* what GetValue(key) returns in the current state, if it returns
Get(key) == TreeGetValue(tree_pages, root_page_id_, key).result

\* C9: Insert(k, v) of a key not in the tree returns true and a later GetValue(k)
\* gives {v}; Insert of a key in the tree returns false and changes nothing.
\* This for every position of the key in its leaf and across leaf, internal and
\* root splits.  Stated for the runs in which Remove is never called, and
\* leaving aside the runs that stop at the unlatch of a guard without latch.
C9_InsertThenGet ==
  (~hist.removed /\ hist.stopped # "Drop") =>
     /\ hist.stopped = "none"
     /\ hist.ret.op = "Insert" => hist.ret.ok = hist.ret.absent
     /\ \A k \in Keys :
          Get(k) = IF hist.contents[k] = 0 THEN <<>> ELSE <<hist.contents[k]>>

\* C10: once Insert(k, v) has succeeded, Remove(k) returns and every later
\* GetValue(k) is empty, across borrows, merges and the collapse of the root.
\* Leaving aside the runs that stop at the unlatch of a guard without latch.
C10_RemoveThenGetEmpty ==
  hist.stopped # "Drop" =>
     /\ hist.ret.op = "Remove" => hist.stopped = "none"
     /\ \A k \in hist.gone : Get(k) = <<>>

TreeIdsInRange == next_page_id_ <= MaxTreePages + 1

(***************************************************************************)
(* The leaf chain and the IndexIterator.  An iterator is (page_id, index):  *)
(* the page its read_page_ points into and index_.                          *)
(***************************************************************************)
\* steps a scan is followed for
ScanFuel == MaxTreePages * ArrayCap

\* the loop of Begin() / End(): down by ValueAt(0) / ValueAt(GetSize() - 1) to a
\* leaf; INVALID_PAGE_ID when the walk leaves the pages of the tree
RECURSIVE LeafFrom(_, _, _, _)
LeafFrom(pages, page_id_to_fetch, leftmost, depth) ==
  IF page_id_to_fetch \notin TreePageIds \/ depth > MaxTreePages
  THEN INVALID_PAGE_ID
  ELSE LET page == pages[page_id_to_fetch]
       IN IF IsLeafPage(page) THEN page_id_to_fetch
          ELSE LeafFrom(pages,
                        ValueAt(page, IF leftmost THEN 0 ELSE page.size - 1),
                        leftmost, depth + 1)

\* BPlusTree::Begin()
Begin(pages, root) == [page_id |-> LeafFrom(pages, root, TRUE, 0), index |-> 0]

\* BPlusTree::End()
End(pages, root) ==
  LET leaf == LeafFrom(pages, root, FALSE, 0)
  IN [page_id |-> leaf, index |-> IF leaf \in TreePageIds THEN pages[leaf].size ELSE 0]

\* what FetchPageRead(page_id) shows: a page of the tree, or zeroed bytes
ReadPage(pages, page_id) == IF page_id \in TreePageIds THEN pages[page_id] ELSE BlankPage

\* IndexIterator::IsEnd
IsEnd(pages, it) ==
  LET read_page_ == ReadPage(pages, it.page_id)
  IN it.index = read_page_.size /\ read_page_.next_page_id_ = INVALID_PAGE_ID

\* IndexIterator::operator++
Increment(pages, it) ==
  LET read_page_ == ReadPage(pages, it.page_id)
      index_ == it.index + 1
      next_page_id == read_page_.next_page_id_
  IN IF index_ = read_page_.size /\ next_page_id # INVALID_PAGE_ID
     THEN [page_id |-> next_page_id, index |-> 0]
     ELSE [page_id |-> it.page_id, index |-> index_]

\* for (it = Begin(); it != End(); ++it) collect *it
RECURSIVE Scan(_, _, _, _)
Scan(pages, it, end, fuel) ==
  IF it = end THEN [pairs |-> <<>>, ends |-> TRUE]
  ELSE IF fuel = 0 THEN [pairs |-> <<>>, ends |-> FALSE]
  ELSE LET rest == Scan(pages, Increment(pages, it), end, fuel - 1)
       IN [pairs |-> <<PairAt(ReadPage(pages, it.page_id), it.index)>> \o rest.pairs,
           ends |-> rest.ends]

\* the pages met by following next_page_id_ from page_id on
RECURSIVE ChainFrom(_, _, _)
ChainFrom(pages, page_id, fuel) ==
  IF page_id = INVALID_PAGE_ID THEN [ids |-> <<>>, ends |-> TRUE]
  ELSE IF fuel = 0 THEN [ids |-> <<>>, ends |-> FALSE]
  ELSE LET rest == ChainFrom(pages, ReadPage(pages, page_id).next_page_id_, fuel - 1)
       IN [ids |-> <<page_id>> \o rest.ids, ends |-> rest.ends]

\* the leaves below page_id, left to right, by the child pointers
RECURSIVE LeavesOf(_, _, _)
RECURSIVE LeavesOfChildren(_, _, _, _)
LeavesOf(pages, page_id, depth) ==
  IF page_id \notin TreePageIds \/ depth > MaxTreePages THEN <<>>
  ELSE IF IsLeafPage(pages[page_id]) THEN <<page_id>>
  ELSE LeavesOfChildren(pages, pages[page_id], 0, depth)
LeavesOfChildren(pages, page, i, depth) ==
  IF i >= page.size THEN <<>>
  ELSE LeavesOf(pages, ValueAt(page, i), depth + 1)
         \o LeavesOfChildren(pages, page, i + 1, depth)

\* the pairs GetValue finds, by ascending key
PresentPairs ==
  LET present == SelectSeq([k \in 1 .. MaxKey |-> k], LAMBDA k : Get(k) # <<>>)
  IN [i \in 1 .. Len(present) |-> [k |-> present[i], v |-> Get(present[i])[1]]]

\* C11: after the completed calls on a non-empty tree, next_page_id_ from the
\* leftmost leaf visits exactly the leaves of the tree and ends at
\* INVALID_PAGE_ID, and ++ from Begin() reaches End() and yields exactly the
\* pairs present, each once, by ascending key.
C11_LeafChainAndIterator ==
  (root_page_id_ # INVALID_PAGE_ID /\ hist.stopped = "none") =>
     /\ ChainFrom(tree_pages, LeafFrom(tree_pages, root_page_id_, TRUE, 0), MaxTreePages + 1)
          = [ids |-> LeavesOf(tree_pages, root_page_id_, 0), ends |-> TRUE]
     /\ Scan(tree_pages, Begin(tree_pages, root_page_id_), End(tree_pages, root_page_id_),
             ScanFuel)
          = [pairs |-> PresentPairs, ends |-> TRUE]

\* the live guards of kind in kinds that thread t owns on frame f
GuardsOf(t, f, kinds) ==
  {i \in 1 .. Len(loc[t].guards) :
     loc[t].guards[i].page = f /\ loc[t].guards[i].kind \in kinds}

\* C14: while a thread owns a live write guard on a page, no other thread owns
\* a live read guard or write guard on the same page.
C14_WriteGuardExcludes ==
  \A f \in Frames : \A t \in Threads :
    GuardsOf(t, f, {"write"}) # {} =>
      \A o \in Threads \ {t} : GuardsOf(o, f, {"read", "write"}) = {}

\* the tracked nodes (those in node_list_less_k_ or node_list_more_k_) whose
\* is_evictable_ is true
EvictableNodes == {a \in Addrs : heap[a].live /\ heap[a].is_evictable}

\* C18: after any sequence of replacer calls, Size() is the number of tracked
\* nodes whose is_evictable_ flag is true.
C18_SizeCountsEvictable ==
  ~aborted => Size(Rep) = Cardinality(EvictableNodes)

\* frame f has a tracked node in replacer R and the node is evictable
FrameEvictable(R, f) ==
  \E a \in Addrs : R.heap[a].live /\ R.heap[a].fid = f /\ R.heap[a].is_evictable

\* some caller holds a Page pointer to page_id
HeldBySomeone(page_id) ==
  \E t \in Threads : \E i \in 1 .. Len(loc[t].held) : loc[t].held[i][1] = page_id

\* C20: UnpinPage(p, d) returns false and changes nothing when p is not in
\* page_table_ or its pin count is 0; otherwise it returns true, lowers the pin
\* count by exactly one, and marks the frame evictable in the replacer exactly
\* when the count reaches 0 (the replacer is left alone otherwise).
C20_UnpinPage ==
  ~aborted =>
    \A p \in PageIds : \A d \in BOOLEAN :
      (Known(p) /\ (HeldBySomeone(p) \/ Refused(p))) =>
        \A u \in Unpin(Rep, pages_, page_table_, p, d) :
          IF Refused(p)
          THEN ~u.ub /\ ~u.ret /\ u.R = Rep /\ u.pg = pages_
          ELSE LET f == page_table_[p]
               IN /\ ~u.ub /\ u.ret
                  /\ u.pg[f].pin_count_ = pages_[f].pin_count_ - 1
                  /\ \A g \in Frames \ {f} : u.pg[g] = pages_[g]
                  /\ IF u.pg[f].pin_count_ = 0
                     THEN FrameEvictable(u.R, f)
                     ELSE u.R = Rep

\* C19: each resident frame (the target of a page_table_ entry) is marked
\* evictable in the replacer if and only if its pin count is 0.
C19_EvictableIffUnpinned ==
  ~aborted =>
    \A p \in DOMAIN page_table_ :
      FrameEvictable(Rep, page_table_[p]) <=> pages_[page_table_[p]].pin_count_ = 0

\* the pages of the tree: those reached from page_id through the child pointers
RECURSIVE PagesBelow(_, _, _)
PagesBelow(pages, page_id, depth) ==
  IF page_id \notin TreePageIds \/ depth > MaxTreePages THEN {}
  ELSE IF IsLeafPage(pages[page_id]) THEN {page_id}
  ELSE {page_id} \cup UNION {PagesBelow(pages, ValueAt(pages[page_id], i), depth + 1) :
                               i \in 0 .. pages[page_id].size - 1}

\* C16: after every completed Insert or Remove, every leaf and internal page
\* other than the root has GetMinSize() <= GetSize() < GetMaxSize(), with
\* GetMinSize() = ceil(GetMaxSize() / 2); this includes both halves of a split.
C16_SizeBounds ==
  hist.stopped = "none" =>
    \A p \in PagesBelow(tree_pages, root_page_id_, 0) \ {root_page_id_} :
      /\ GetMinSize(tree_pages[p]) <= tree_pages[p].size
      /\ tree_pages[p].size < tree_pages[p].max_size

\* the keys stored in the leaves below page_id
RECURSIVE KeysBelow(_, _, _)
KeysBelow(pages, page_id, depth) ==
  IF page_id \notin TreePageIds \/ depth > MaxTreePages THEN {}
  ELSE IF IsLeafPage(pages[page_id])
  THEN {KeyAt(pages[page_id], i) : i \in 0 .. pages[page_id].size - 1}
  ELSE UNION {KeysBelow(pages, ValueAt(pages[page_id], i), depth + 1) :
                i \in 0 .. pages[page_id].size - 1}

\* internal page `page` separates its children
Separates(pages, page) ==
  \A i \in 1 .. page.size - 1 :
    /\ \A k \in KeysBelow(pages, ValueAt(page, i), 0) : k >= KeyAt(page, i)
    /\ \A k \in KeysBelow(pages, ValueAt(page, i - 1), 0) : k < KeyAt(page, i)
    /\ i > 1 => KeyAt(page, i - 1) < KeyAt(page, i)

\* C17: after every completed Insert or Remove every internal page separates
\* its children: the keys below slot i >= 1 are >= key[i], the keys below slot
\* i-1 are < key[i], and key[1 .. size-1] is strictly increasing.
C17_KeysSeparateChildren ==
  hist.stopped = "none" =>
    \A p \in PagesBelow(tree_pages, root_page_id_, 0) :
      ~IsLeafPage(tree_pages[p]) => Separates(tree_pages, tree_pages[p])

(***************************************************************************)
(* The guard objects themselves: page_guard.cpp.  A caller gets Page       *)
(* pointers from NewPage / FetchPage, builds guards on them the way lines  *)
(* 198-199, 204-206 and 211-213 of buffer_pool_manager.cpp build the local *)
(* page_guard, and then moves, assigns, drops and destroys the objects.    *)
(* A guard object is (kind, bpm_ set, page_, is_dirty_); a thread's guard  *)
(* objects are loc[t].guards, in the order of their construction.          *)
(***************************************************************************)
\* the model's cap on the guard objects alive at a time
MaxObjects == 3

\* the thread that owns the guard objects
MoveThreads == {1}

\* a guard that holds nothing: bpm_ = nullptr, page_ = nullptr, is_dirty_ = false
EmptyGuard(kind) == [kind |-> kind, bpm |-> FALSE, page |-> NoFrame, is_dirty |-> FALSE]

\* BasicPageGuard(bpm, page): bpm_(bpm), page_(page)
FullGuard(kind, frame_id) == [kind |-> kind, bpm |-> TRUE, page |-> frame_id, is_dirty |-> FALSE]

\* What the model keeps besides the program's state, per page: pins handed to
\* guards, UnpinPage calls of guards, latches taken for guards and released by
\* guards; refused: an UnpinPage of a guard returned false; last: the operation
\* applied last.
NoMoveHist == [pins |-> [p \in PageIds |-> 0], unpins |-> [p \in PageIds |-> 0],
               latched |-> [p \in PageIds |-> 0], unlatched |-> [p \in PageIds |-> 0],
               refused |-> FALSE, last |-> "none", stopped |-> "none"]

\* the source left without its holding, as a variant of the move constructor
\* that copies the fields only
KeepSource(that) == that

\* lines 18-20 and 39-41: that.bpm_ = nullptr; that.page_ = nullptr;
\* that.is_dirty_ = false
EmptySource(that) == EmptyGuard(that.kind)

\* lines 54-56, 62-64, 77-79, 85-87: the latch of a read / write guard is released
\* if page_ is not null
Unlatch(pg, g) ==
  IF g.kind = "basic" \/ g.page = NoFrame THEN {[ub |-> FALSE, pg |-> pg, n |-> 0]}
  ELSE {[ub |-> u.ub, pg |-> u.pg, n |-> 1] :
          u \in IF g.kind = "read" THEN RUnlatch(pg, g.page) ELSE WUnlatch(pg, g.page)}

\* lines 24-26 and 33-35: UnpinPage(PageId(), is_dirty_) if bpm_ is not null
ReleasePin(R, pg, pt, g) ==
  IF ~g.bpm THEN {[ub |-> FALSE, ret |-> TRUE, R |-> R, pg |-> pg, n |-> 0]}
  ELSE {[ub |-> u.ub, ret |-> u.ret, R |-> u.R, pg |-> u.pg, n |-> 1] :
          u \in BasicDrop(R, pg, pt, g.page, g.is_dirty)}

\* What Drop, the destructor and the first half of move assignment do with the
\* holding of guard g: the latch, then the pin.  unl / unp: the page whose latch
\* was released / that was unpinned, INVALID_PAGE_ID if none.
Release(R, pg, pt, g) ==
  UNION {IF l.ub THEN {[ub |-> TRUE, ret |-> TRUE, R |-> R, pg |-> pg,
                        unl |-> INVALID_PAGE_ID, unp |-> INVALID_PAGE_ID]}
         ELSE {[ub |-> u.ub, ret |-> u.ret, R |-> u.R, pg |-> u.pg,
                unl |-> IF l.n = 1 THEN pg[g.page].page_id_ ELSE INVALID_PAGE_ID,
                unp |-> IF u.n = 1 /\ g.page # NoFrame THEN pg[g.page].page_id_
                        ELSE INVALID_PAGE_ID] :
                 u \in ReleasePin(R, l.pg, pt, g)} : l \in Unlatch(pg, g)}

Count(f, page_id) == IF page_id \in PageIds THEN [f EXCEPT ![page_id] = @ + 1] ELSE f

\* the release r of a guard takes effect; op is the operation it is part of
Released(t, r, op, guards) ==
  IF r.ub
  THEN /\ Stop(op)
       /\ UNCHANGED <<repVars, bpmVars, pc, loc>>
  ELSE /\ SetRep(r.R)
       /\ pages_' = r.pg
       /\ loc' = [loc EXCEPT ![t].guards = guards]
       /\ hist' = [hist EXCEPT !.unpins = Count(@, r.unp),
                               !.unlatched = Count(@, r.unl),
                               !.refused = @ \/ ~r.ret,
                               !.last = op]
       /\ UNCHANGED <<page_table_, free_list_, next_page_id_, disk, pc, aborted, treeVars>>

\* lines 198-199, 204-206, 211-213: a guard of the given kind is built on the
\* h-th Page pointer of the caller and the page is latched for it.  A caller does
\* not latch a page it has latched already.
Construct(t, kind, h) ==
  /\ ~aborted /\ pc[t] = "idle"
  /\ h \in 1 .. Len(loc[t].held)
  /\ Len(loc[t].guards) < MaxObjects
  /\ LET page_id == loc[t].held[h][1]
         f == loc[t].held[h][2]
     IN /\ kind # "basic" => (~pages_[f].writer /\ pages_[f].readers = 0)
        /\ pages_' = [pages_ EXCEPT ![f].readers = IF kind = "read" THEN @ + 1 ELSE @,
                                    ![f].writer = IF kind = "write" THEN TRUE ELSE @]
        /\ loc' = [loc EXCEPT ![t].held = EraseAt(@, h),
                              ![t].guards = Append(@, FullGuard(kind, f))]
        /\ hist' = [hist EXCEPT !.pins = Count(@, page_id),
                                !.latched = IF kind = "basic" THEN @ ELSE Count(@, page_id),
                                !.last = kind]
  /\ UNCHANGED <<repVars, page_table_, free_list_, next_page_id_, disk, pc, aborted, treeVars>>

\* BasicPageGuard(BasicPageGuard &&that), lines 14-21; ReadPageGuard(ReadPageGuard
\* &&that) and WritePageGuard(WritePageGuard &&that), lines 49-51 and 72-74, move
\* that.guard_ into their own empty guard_
MoveConstruct(t, i) ==
  /\ ~aborted /\ pc[t] = "idle"
  /\ i \in 1 .. Len(loc[t].guards)
  /\ Len(loc[t].guards) < MaxObjects
  /\ LET that == loc[t].guards[i]
     IN /\ loc' = [loc EXCEPT ![t].guards = Append([@ EXCEPT ![i] = EmptySource(that)], that)]
        /\ hist' = [hist EXCEPT !.last = IF that.bpm THEN "move" ELSE "move_empty"]
  /\ UNCHANGED <<repVars, bpmVars, pc, aborted, treeVars>>

\* operator=(&&that), lines 32-43, 53-59 and 76-82: guard i releases what it
\* holds and takes over what guard j holds; j is left empty (i = j: the guard is
\* assigned to itself)
MoveAssign(t, i, j) ==
  /\ ~aborted /\ pc[t] = "idle"
  /\ i \in 1 .. Len(loc[t].guards) /\ j \in 1 .. Len(loc[t].guards)
  /\ loc[t].guards[i].kind = loc[t].guards[j].kind
  /\ LET this == loc[t].guards[i]
         that == loc[t].guards[j]
         op == IF i = j THEN "assign_self"
               ELSE IF this.bpm THEN "assign" ELSE "assign_to_empty"
     IN \E r \in Release(Rep, pages_, page_table_, this) :
          Released(t, r, op, [[loc[t].guards EXCEPT ![i] = that] EXCEPT ![j] = EmptySource(that)])

\* Drop(), lines 23-30, 61-66 and 84-89, of the i-th guard object
DropInPlace(t, i) ==
  /\ ~aborted /\ pc[t] = "idle"
  /\ i \in 1 .. Len(loc[t].guards)
  /\ LET this == loc[t].guards[i]
     IN \E r \in Release(Rep, pages_, page_table_, this) :
          Released(t, r, IF this.bpm THEN "drop" ELSE "drop_empty",
                   [loc[t].guards EXCEPT ![i] = EmptyGuard(this.kind)])

\* the destructors, lines 45-47, 68-70 and 91-93: Drop(), and the object is gone
Destroy(t, i) ==
  /\ ~aborted /\ pc[t] = "idle"
  /\ i \in 1 .. Len(loc[t].guards)
  /\ LET this == loc[t].guards[i]
     IN \E r \in Release(Rep, pages_, page_table_, this) :
          Released(t, r, IF this.bpm THEN "destroy" ELSE "destroy_empty",
                   EraseAt(loc[t].guards, i))

\* the pool after construction, and a caller without guards
InitMove ==
  /\ k_ = MaxK
  /\ heap = [a \in Addrs |-> FreshNode]
  /\ node_list_less_k_ = <<>>
  /\ node_list_more_k_ = <<>>
  /\ node_store_ = <<>>
  /\ curr_size_ = 0
  /\ current_timestamp_ = 0
  /\ pages_ = [f \in Frames |-> [page_id_ |-> INVALID_PAGE_ID, pin_count_ |-> 0,
                                  is_dirty_ |-> FALSE, data |-> 0,
                                  readers |-> 0, writer |-> FALSE]]
  /\ page_table_ = <<>>
  /\ free_list_ = [i \in 1 .. PoolSize |-> i - 1]
  /\ next_page_id_ = 0
  /\ disk = [p \in PageIds |-> 0]
  /\ pc = [t \in Threads |-> "idle"]
  /\ loc = [t \in Threads |-> NoLoc]
  /\ hist = NoMoveHist
  /\ aborted = FALSE
  /\ root_page_id_ = INVALID_PAGE_ID
  /\ tree_pages = [p \in TreePageIds |-> BlankPage]
  /\ leaf_max_size_ = LeafMaxSize + 1
  /\ internal_max_size_ = InternalMaxSize + 1

\* a caller that takes pages while the pool has free frames and handles them
\* through guards
NextMove ==
  \E t \in MoveThreads :
    \/ free_list_ # <<>> /\ NewPageChoose(t, "page")
    \/ NewPageWriteBack(t)
    \/ NewPageReset(t)
    \/ NewPageSetMeta(t)
    \/ NewPagePublish(t)
    \/ \E p \in PageIds : FetchPageHit(t, p, "page")
    \/ \E kind \in {"basic", "read", "write"}, h \in 1 .. PoolSize + 1 : Construct(t, kind, h)
    \/ \E i \in 1 .. MaxObjects : MoveConstruct(t, i)
    \/ \E i \in 1 .. MaxObjects, j \in 1 .. MaxObjects : MoveAssign(t, i, j)
    \/ \E i \in 1 .. MaxObjects : DropInPlace(t, i)
    \/ \E i \in 1 .. MaxObjects : Destroy(t, i)

SpecMove == InitMove /\ [][NextMove]_vars

\* the guard objects of thread t that hold page_id
Holding(t, page_id, kinds) ==
  {i \in 1 .. Len(loc[t].guards) :
     /\ loc[t].guards[i].kind \in kinds
     /\ loc[t].guards[i].page # NoFrame
     /\ pages_[loc[t].guards[i].page].page_id_ = page_id}

\* the Page pointers of thread t to page_id that are not in a guard
RawPins(t, page_id) ==
  Cardinality({h \in 1 .. Len(loc[t].held) : loc[t].held[h][1] = page_id})

\* C15: for any sequence of move constructions, move assignments, Drop calls and
\* destructions of basic, read and write guards, every holding is released exactly
\* once: per page, the pins (latches) handed to guards are the UnpinPage calls
\* (latch releases) made by guards plus the guards that still hold the page, so a
\* moved-from or dropped guard releases nothing and an assigned-to guard has
\* released what it held; no release is refused or undefined, and the pin count
\* and the latch of a page are those of the guards (and Page pointers) on it.
C15_ReleasedExactlyOnce ==
  /\ ~aborted /\ ~hist.refused
  /\ \A t \in MoveThreads :
       /\ \A i \in 1 .. Len(loc[t].guards) :
            loc[t].guards[i].bpm <=> loc[t].guards[i].page # NoFrame
       /\ \A p \in PageIds :
            /\ hist.pins[p] = hist.unpins[p]
                                + Cardinality(Holding(t, p, {"basic", "read", "write"}))
            /\ hist.latched[p] = hist.unlatched[p]
                                   + Cardinality(Holding(t, p, {"read", "write"}))
            /\ p \in DOMAIN page_table_ =>
                 LET f == page_table_[p]
                 IN pc[t] = "idle" =>
                      /\ pages_[f].pin_count_ =
                           Cardinality(Holding(t, p, {"basic", "read", "write"})) + RawPins(t, p)
                      /\ pages_[f].readers = Cardinality(Holding(t, p, {"read"}))
                      /\ pages_[f].writer <=> Holding(t, p, {"write"}) # {}

\* a guard that was moved from or dropped has just been destroyed, after two
\* holdings of a page, one of them with a latch, were acquired and released
C15_Witness ==
  /\ hist.last = "destroy_empty"
  /\ \E p \in PageIds : /\ hist.pins[p] >= 2 /\ hist.unpins[p] = hist.pins[p]
                        /\ hist.latched[p] >= 1 /\ hist.unlatched[p] = hist.latched[p]

(***************************************************************************)
(* The B+ tree under two threads: a writer that calls Insert and Remove and *)
(* a reader that calls GetValue and advances an iterator.  The guards of    *)
(* the tree hold no latch, so a call of the writer is seen by the reader    *)
(* store by store, and the reader's descent is seen page by page.           *)
(***************************************************************************)
Writer == 1
Reader == 2

\* the value a key is loaded with
PreloadValue(key) == (key % MaxValue) + 1

\* the key sets a tree is loaded with before the threads start
Preloads == {S \in SUBSET Keys : Cardinality(S) >= MaxKey - 1}

\* Insert of the keys in ascending order into st
RECURSIVE Preload(_, _)
Preload(st, keys) ==
  IF keys = {} THEN st
  ELSE LET key == CHOOSE k \in keys : \A l \in keys : k <= l
           r == TreeInsert([st EXCEPT !.log = <<>>], key, PreloadValue(key), [equal |-> FALSE])
       IN Preload(r.st, keys \ {key})

\* the locals of a call in progress: the stores still to be made and the outcome
\* of the call (writer); the key, the page to fetch next and the pages fetched
\* (reader); the reader's iterator
NoCall == [log |-> <<>>, hit |-> {}, next |-> 0, op |-> "none", key |-> 0,
           value |-> 0, page_id_to_fetch |-> INVALID_PAGE_ID, depth |-> 0,
           it |-> [page_id |-> INVALID_PAGE_ID, index |-> 0], has_it |-> FALSE]

\* the model's caps on the calls of the writer, and on the GetValue calls and the
\* iterators of the reader (a reader either looks keys up or scans)
MaxWriterCalls == 2
MaxGets == 1
MaxScans == 1

\* contents: the value each key should map to (0: none); preloaded: the keys the
\* tree was loaded with; hit: the undefined operations of the writer's calls so
\* far; removed: Remove was called; ret: the last GetValue that returned
NoConcRet == [op |-> "none", key |-> 0, result |-> <<>>]
ConcHist(keys) == [contents |-> [k \in Keys |-> IF k \in keys THEN PreloadValue(k) ELSE 0],
                   preloaded |-> keys, hit |-> {}, removed |-> FALSE, calls |-> 0,
                   gets |-> 0, scans |-> 0, ret |-> NoConcRet, stopped |-> "none"]

StopConc(name) ==
  /\ aborted' = TRUE
  /\ hist' = [hist EXCEPT !.stopped = name]
  /\ UNCHANGED <<repVars, bpmVars, pc, loc, treeVars>>

\* Insert(key, value) of a key that is not in the tree begins: what it will store
WriterInsert(key, value) ==
  /\ ~aborted /\ pc[Writer] = "idle"
  /\ hist.calls < MaxWriterCalls
  /\ hist.contents[key] = 0
  /\ next_page_id_ + MaxNewPages <= MaxTreePages + 1
  /\ \E u \in UBChoices :
       LET r == TreeInsert(TreeState, key, value, u)
       IN /\ loc' = [loc EXCEPT ![Writer] = [NoCall EXCEPT !.log = r.st.log, !.hit = r.st.hit,
                                                          !.next = r.st.next, !.op = "Insert",
                                                          !.key = key,
                                                          !.value = IF r.success THEN value ELSE 0]]
          /\ hist' = [hist EXCEPT !.hit = @ \cup r.st.hit, !.calls = @ + 1]
  /\ pc' = [pc EXCEPT ![Writer] = "store"]
  /\ UNCHANGED <<repVars, bpmVars, aborted, treeVars>>

\* Remove(key) begins
WriterRemove(key) ==
  /\ ~aborted /\ pc[Writer] = "idle"
  /\ hist.calls < MaxWriterCalls
  /\ LET st == TreeRemove(TreeState, key)
     IN /\ loc' = [loc EXCEPT ![Writer] = [NoCall EXCEPT !.log = st.log, !.hit = st.hit,
                                                        !.next = st.next, !.op = "Remove",
                                                        !.key = key]]
        /\ hist' = [hist EXCEPT !.hit = @ \cup st.hit, !.removed = TRUE, !.calls = @ + 1]
  /\ pc' = [pc EXCEPT ![Writer] = "store"]
  /\ UNCHANGED <<repVars, bpmVars, aborted, treeVars>>

\* the next store of the writer's call: into a page, or root_page_id_ of the header
WriterStore ==
  /\ ~aborted /\ pc[Writer] = "store"
  /\ loc[Writer].log # <<>>
  /\ LET s == Head(loc[Writer].log)
     IN IF s.page_id = HEADER_PAGE_ID
        THEN root_page_id_' = s.root /\ UNCHANGED tree_pages
        ELSE tree_pages' = [tree_pages EXCEPT ![s.page_id] = s.page]
             /\ UNCHANGED root_page_id_
  /\ loc' = [loc EXCEPT ![Writer].log = Tail(@)]
  /\ UNCHANGED <<repVars, bpmVars, pc, hist, aborted, leaf_max_size_, internal_max_size_>>

\* the writer's call returns: its Context and guards are destroyed
WriterReturn ==
  /\ ~aborted /\ pc[Writer] = "store"
  /\ loc[Writer].log = <<>>
  /\ \E stop \in StopsOf(loc[Writer].hit) :
       IF stop # "none"
       THEN StopConc(stop)
       ELSE /\ next_page_id_' = loc[Writer].next
            /\ pc' = [pc EXCEPT ![Writer] = "idle"]
            /\ loc' = [loc EXCEPT ![Writer] = NoCall]
            /\ hist' = [hist EXCEPT !.contents[loc[Writer].key] =
                                      IF loc[Writer].op = "Insert" THEN loc[Writer].value ELSE 0]
            /\ UNCHANGED <<repVars, pages_, page_table_, free_list_, disk, aborted, treeVars>>

\* GetValue, lines 48-51: root_page_id_ is read from the header page
ReaderGetValue(key) ==
  /\ ~aborted /\ pc[Reader] = "idle"
  /\ key \in hist.preloaded
  /\ hist.gets < MaxGets /\ hist.scans = 0
  /\ loc' = [loc EXCEPT ![Reader].op = "GetValue", ![Reader].key = key,
                        ![Reader].page_id_to_fetch = root_page_id_, ![Reader].depth = 0]
  /\ pc' = [pc EXCEPT ![Reader] = "fetch"]
  /\ UNCHANGED <<repVars, bpmVars, hist, aborted, treeVars>>

\* GetValue, lines 52-81: one turn of the loop; at the return the guards of the
\* call are destroyed
ReaderFetch ==
  /\ ~aborted /\ pc[Reader] = "fetch"
  /\ LET l == loc[Reader]
         page == ReadPage(tree_pages, l.page_id_to_fetch)
         hits == SelectSeq([i \in 1 .. page.size |-> PairAt(page, i - 1)],
                           LAMBDA e : e.k = l.key)
         returns == l.page_id_to_fetch = INVALID_PAGE_ID \/ IsLeafPage(page)
     IN IF l.depth > MaxTreePages THEN StopConc("GetValue")
        ELSE IF returns
        THEN \E stop \in StopsOf({}) :
               IF stop # "none" THEN StopConc(stop)
               ELSE /\ hist' = [hist EXCEPT !.gets = @ + 1, !.ret =
                                  [op |-> "GetValue", key |-> l.key,
                                   result |-> IF l.page_id_to_fetch = INVALID_PAGE_ID THEN <<>>
                                              ELSE [i \in 1 .. Len(hits) |-> hits[i].v]]]
                    /\ pc' = [pc EXCEPT ![Reader] = "idle"]
                    /\ loc' = [loc EXCEPT ![Reader] = [NoCall EXCEPT !.it = l.it,
                                                                     !.has_it = l.has_it]]
                    /\ UNCHANGED <<repVars, bpmVars, aborted, treeVars>>
        ELSE /\ loc' = [loc EXCEPT ![Reader].page_id_to_fetch =
                                     ValueAt(page, UpperBoundInternal(page, l.key) - 1),
                                   ![Reader].depth = @ + 1]
             /\ UNCHANGED <<repVars, bpmVars, pc, hist, aborted, treeVars>>

\* Begin(): the reader opens an iterator on the leftmost leaf
ReaderBegin ==
  /\ ~aborted /\ pc[Reader] = "idle"
  /\ hist.scans < MaxScans /\ hist.gets = 0
  /\ IF root_page_id_ = INVALID_PAGE_ID
        \/ LeafFrom(tree_pages, root_page_id_, TRUE, 0) = INVALID_PAGE_ID
     THEN StopConc("Begin")
     ELSE /\ loc' = [loc EXCEPT ![Reader].it = Begin(tree_pages, root_page_id_),
                                ![Reader].has_it = TRUE]
          /\ hist' = [hist EXCEPT !.scans = @ + 1]
          /\ UNCHANGED <<repVars, bpmVars, pc, aborted, treeVars>>

\* operator++ of the reader's iterator, while index_ is inside the page; when it
\* moves to the next leaf the guard of the old leaf is released by the assignment
\* of line 44
ReaderIncrement ==
  /\ ~aborted /\ pc[Reader] = "idle"
  /\ loc[Reader].has_it
  /\ ~IsEnd(tree_pages, loc[Reader].it)
  /\ loc[Reader].it.index < ArrayCap
  /\ LET it == Increment(tree_pages, loc[Reader].it)
     IN \E stop \in IF it.page_id = loc[Reader].it.page_id THEN {"none"} ELSE StopsOf({}) :
          IF stop # "none" THEN StopConc(stop)
          ELSE /\ loc' = [loc EXCEPT ![Reader].it = it]
               /\ UNCHANGED <<repVars, bpmVars, pc, hist, aborted, treeVars>>

\* a tree loaded with a key set, and two threads about to start
InitConc ==
  /\ k_ = MaxK
  /\ heap = [a \in Addrs |-> FreshNode]
  /\ node_list_less_k_ = <<>>
  /\ node_list_more_k_ = <<>>
  /\ node_store_ = <<>>
  /\ curr_size_ = 0
  /\ current_timestamp_ = 0
  /\ pages_ = [f \in Frames |-> [page_id_ |-> INVALID_PAGE_ID, pin_count_ |-> 0,
                                  is_dirty_ |-> FALSE, data |-> 0,
                                  readers |-> 0, writer |-> FALSE]]
  /\ page_table_ = <<>>
  /\ free_list_ = [i \in 1 .. PoolSize |-> i - 1]
  /\ disk = [p \in PageIds |-> 0]
  /\ pc = [t \in Threads |-> "idle"]
  /\ loc = [t \in Threads |-> NoCall]
  /\ aborted = FALSE
  /\ leaf_max_size_ = LeafMaxSize + 1
  /\ internal_max_size_ = InternalMaxSize + 1
  /\ \E keys \in Preloads :
       LET st == Preload([pages |-> [p \in TreePageIds |-> BlankPage],
                          root |-> INVALID_PAGE_ID, next |-> HEADER_PAGE_ID + 1,
                          ws |-> <<>>, hit |-> {}, log |-> <<>>], keys)
       IN /\ st.hit = {}
          /\ tree_pages = st.pages
          /\ root_page_id_ = st.root
          /\ next_page_id_ = st.next
          /\ hist = ConcHist(keys)

NextConc ==
  \/ \E key \in Keys, value \in Values : WriterInsert(key, value)
  \/ \E key \in Keys : WriterRemove(key)
  \/ WriterStore
  \/ WriterReturn
  \/ \E key \in Keys : ReaderGetValue(key)
  \/ ReaderFetch
  \/ ReaderBegin
  \/ ReaderIncrement

SpecConc == InitConc /\ [][NextConc]_vars

\* C12: in a tree loaded with a key set, while one thread inserts new keys, every
\* GetValue of a loaded key returns exactly the value it was loaded with, at every
\* point of the writer's splits; when the threads have finished the tree holds
\* every loaded and every inserted key and the iterator yields them in order.
\* Stated for the runs without Remove in which no undefined operation of the
\* tree was executed and no unlatch of a guard stopped the process.
C12_ReadersSeeLoadedValues ==
  (~hist.removed /\ hist.hit = {} /\ hist.stopped = "none") =>
     /\ hist.ret.op = "GetValue" => hist.ret.result = <<PreloadValue(hist.ret.key)>>
     /\ (\A t \in Threads : pc[t] = "idle") =>
          /\ \A k \in Keys :
               Get(k) = IF hist.contents[k] = 0 THEN <<>> ELSE <<hist.contents[k]>>
          /\ Scan(tree_pages, Begin(tree_pages, root_page_id_),
                  End(tree_pages, root_page_id_), ScanFuel).ends
          /\ Scan(tree_pages, Begin(tree_pages, root_page_id_),
                  End(tree_pages, root_page_id_), ScanFuel).pairs = PresentPairs

\* a thread has released a page latch that it did not hold, and the requests of
\* that latch no longer return: the threads that need the page wait for ever
StuckOnLatch == aborted /\ hist.stopped = "Drop"

\* C13: threads that run GetValue, Insert, Remove and the iterator's ++ on one
\* tree never reach a state in which they wait for page latches for ever,
\* whatever the order of their latch requests (the brothers a Remove latches, the
\* next leaf an iterator latches).
C13_NoDeadlock == ~StuckOnLatch

(***************************************************************************)
(* Properties of the replacer's calls, stated on every outcome the call    *)
(* has in the current state.                                               *)
(***************************************************************************)
\* the nodes of the two lists
TrackedNodes == {a \in Addrs : heap[a].live}

\* the evictable nodes of node_list_more_k_ whose oldest kept timestamp is smallest
OldestOfMore ==
  LET cand == {a \in EvictableNodes : InSeq(node_list_more_k_, a)}
  IN {a \in cand : \A b \in cand : GetKHistory(heap[a]) <= GetKHistory(heap[b])}

\* C23: Evict succeeds iff some tracked node is evictable.  With no evictable
\* node in a non-empty node_list_less_k_ it returns the evictable node of
\* node_list_more_k_ whose oldest kept timestamp is smallest; with no evictable
\* node at all it returns false and leaves the replacer as it is, whatever
\* curr_size_ says and without walking past the end of a list.
C23_EvictIffEvictable ==
  ~aborted =>
    \A o \in Evict(Rep) :
      /\ ~o.ub
      /\ o.ok <=> EvictableNodes # {}
      /\ ~o.ok => o.R = Rep
      /\ (o.ok /\ \A a \in EvictableNodes : ~InSeq(node_list_less_k_, a)) =>
           \E a \in OldestOfMore : o.fid = heap[a].fid

\* the evictable nodes with fewer than k recorded accesses, and among them the
\* ones whose earliest access is the oldest
FewerThanK == {a \in EvictableNodes : Len(heap[a].history) < k_}
EarliestOfFewer ==
  {a \in FewerThanK : \A b \in FewerThanK : Last(heap[a].history) <= Last(heap[b].history)}

\* C24: for every k, when evictable frames with fewer than k recorded accesses
\* exist, Evict returns the one among them whose earliest recorded access is the
\* oldest, also when it was accessed again after the others.
C24_EvictEarliestFirstAccess ==
  (~aborted /\ FewerThanK # {}) =>
    \A o \in Evict(Rep) :
      ~o.ub /\ o.ok /\ \E a \in EarliestOfFewer : o.fid = heap[a].fid

\* RecordAccess(frame_id) followed at once by SetEvictable(frame_id, set_evictable)
RecordAccessThenSetEvictable(R, frame_id, set_evictable) ==
  UNION {IF o.ub THEN {o} ELSE SetEvictable(o.R, frame_id, set_evictable) :
           o \in RecordAccess(R, frame_id)}

\* C25: in every state of the replacer, for every frame f and flag b,
\* RecordAccessAndSetEvictable(f, b) leaves the replacer in the state that
\* RecordAccess(f) followed by SetEvictable(f, b) leaves it in: histories, lists,
\* flags, curr_size_ and current_timestamp_.
C25_RecordAndSetIsComposition ==
  ~aborted =>
    \A f \in Frames, b \in BOOLEAN :
      RecordAccessAndSetEvictable(Rep, f, b) = RecordAccessThenSetEvictable(Rep, f, b)

\* frame f has a node of its own in one of the lists
TrackedFrame(f) ==
  /\ f \in DOMAIN node_store_
  /\ heap[node_store_[f]].live
  /\ heap[node_store_[f]].fid = f

\* C26: Remove(f) of a tracked evictable frame leaves f in none of node_store_,
\* node_list_less_k_ and node_list_more_k_ and Size() one smaller, and a
\* RecordAccess(f) after it makes a new node with one timestamp at the front of
\* node_list_less_k_; Remove of an unknown frame changes nothing.
C26_RemoveForgetsFrame ==
  ~aborted =>
    \A f \in Frames : \A o \in Remove(Rep, f) :
      /\ f \notin DOMAIN node_store_ => (~o.ub /\ o.R = Rep)
      /\ (TrackedFrame(f) /\ heap[node_store_[f]].is_evictable) =>
           /\ ~o.ub
           /\ f \notin DOMAIN o.R.store
           /\ ~InSeq(o.R.less, node_store_[f]) /\ ~InSeq(o.R.more, node_store_[f])
           /\ Size(o.R) = Size(Rep) - 1
           /\ \A n \in RecordAccess(o.R, f) :
                /\ ~n.ub
                /\ n.R.less # <<>>
                /\ n.R.heap[Head(n.R.less)].fid = f
                /\ n.R.heap[Head(n.R.less)].history = <<o.R.ts>>

\* C27: after any sequence of replacer calls and for every k >= 1, each tracked
\* node is in exactly one list, in node_list_less_k_ iff it has fewer than k
\* recorded accesses and in node_list_more_k_ iff it has k; its history holds at
\* most k timestamps, and Remove erases it from the list it is in.
C27_ListMatchesHistory ==
  /\ hist.stopped # "Remove"
  /\ \A a \in TrackedNodes :
       /\ InSeq(node_list_less_k_, a) # InSeq(node_list_more_k_, a)
       /\ InSeq(node_list_less_k_, a) <=> Len(heap[a].history) < k_
       /\ InSeq(node_list_more_k_, a) <=> Len(heap[a].history) = k_
       /\ Len(heap[a].history) <= k_

(***************************************************************************)
(* DeletePage and FlushAllPages.                                           *)
(***************************************************************************)
\* the list nodes of frame f
NodesOf(f, h, less, more) ==
  {a \in Addrs : h[a].live /\ h[a].fid = f /\ (InSeq(less, a) \/ InSeq(more, a))}

\* the number of times f is in list s
Occurrences(s, f) == Cardinality({i \in DOMAIN s : s[i] = f})

\* what the claim of C21 expects of a DeletePage(page_id) step
DeletePageAsClaimed(page_id) ==
  IF page_id \notin DOMAIN page_table_ THEN UNCHANGED vars
  ELSE LET f == page_table_[page_id]
       IN IF pages_[f].pin_count_ > 0 THEN UNCHANGED vars
          ELSE /\ ~aborted'
               /\ pages_[f].is_dirty_ => disk'[page_id] = pages_[f].data
               /\ page_id \notin DOMAIN page_table_'
               /\ NodesOf(f, heap', node_list_less_k_', node_list_more_k_') = {}
               /\ pages_'[f].pin_count_ = 0
               /\ ~pages_'[f].is_dirty_
               /\ Occurrences(free_list_', f) = 1

\* C21: DeletePage(p) changes nothing when p is not resident (true) or pinned
\* (false); otherwise it writes p back if dirty, and afterwards p is not in
\* page_table_, its frame has no node in the replacer, pin count 0, is not dirty
\* and is on free_list_ exactly once.
C21_DeletePage ==
  [][\A t \in Threads, p \in PageIds : DeletePage(t, p) => DeletePageAsClaimed(p)]_vars

\* BufferPoolManager::FlushAllPages, the WritePage calls of its loop in order
FlushAllWrites ==
  [i \in 1 .. PoolSize |-> [frame_id |-> i - 1, page_id |-> pages_[i - 1].page_id_,
                            data |-> pages_[i - 1].data]]

\* C22: FlushAllPages issues WritePage exactly once for each resident page, with
\* its id and current bytes, and none for a frame of free_list_ (none with
\* INVALID_PAGE_ID or the id of a deleted page); afterwards no resident frame is
\* dirty and the pin counts are as before.
C22_FlushAllPages ==
  [][\A t \in Threads :
       FlushAllPages(t) =>
         /\ \A p \in DOMAIN page_table_ :
              \E i \in DOMAIN FlushAllWrites :
                /\ FlushAllWrites[i].page_id = p
                /\ FlushAllWrites[i].data = pages_[page_table_[p]].data
                /\ \A j \in DOMAIN FlushAllWrites : FlushAllWrites[j].page_id = p => j = i
         /\ \A i \in DOMAIN FlushAllWrites :
              /\ ~InSeq(free_list_, FlushAllWrites[i].frame_id)
              /\ FlushAllWrites[i].page_id \in DOMAIN page_table_
         /\ \A p \in DOMAIN page_table_' : ~pages_'[page_table_'[p]].is_dirty_
         /\ \A f \in Frames : pages_'[f].pin_count_ = pages_[f].pin_count_]_vars

(***************************************************************************)
(* Where the frames of the pool are.                                       *)
(***************************************************************************)
\* the page ids page_table_ maps to frame f
EntriesOf(f) == {p \in DOMAIN page_table_ : page_table_[p] = f}

\* no NewPage and no FetchPage miss is between GetFreeFrameLF and its return
NoMissInProgress == \A t \in Threads : pc[t] = "idle"

\* C28: in every state with no NewPage or FetchPage miss in progress, whatever the
\* interleaving before, each frame is either on free_list_ (once, with no entry
\* of page_table_ and no node in the replacer) or the target of exactly one
\* entry of page_table_; none is in both and none in neither.
C28_FramesPartitioned ==
  (NoMissInProgress /\ ~aborted) =>
    \A f \in Frames :
      IF InSeq(free_list_, f)
      THEN /\ Occurrences(free_list_, f) = 1
           /\ EntriesOf(f) = {}
           /\ NodesOf(f, heap, node_list_less_k_, node_list_more_k_) = {}
      ELSE Cardinality(EntriesOf(f)) = 1

\* thread t owns frame f from GetFreeFrameLF to page_table_.insert
InIOWindow(t, f) ==
  /\ pc[t] \in {"np_write", "np_reset", "np_meta", "np_publish",
                "fp_write", "fp_read", "fp_meta", "fp_publish"}
  /\ loc[t].frame_id = f

\* C29: from the moment NewPage or FetchPage has its frame and has released
\* latch_ until it inserts the entry of page_table_, the frame is neither in
\* page_table_ nor on free_list_ and not evictable, and no NewPage, FetchPage,
\* UnpinPage or DeletePage of another thread gets, returns or changes the frame.
C29_WindowFrameIsolated ==
  [][\A t \in Threads, f \in Frames :
       /\ InIOWindow(t, f)' =>
            /\ EntriesOf(f)' = {}
            /\ ~InSeq(free_list_', f)
            /\ \A a \in NodesOf(f, heap', node_list_less_k_', node_list_more_k_') :
                 ~heap'[a].is_evictable
            /\ \A u \in Threads \ {t} : ~InIOWindow(u, f)'
       /\ (InIOWindow(t, f) /\ pc'[t] = pc[t] /\ \A u \in Threads : ~FlushAllPages(u)) =>
            pages_'[f] = pages_[f]]_vars

(***************************************************************************)
(* The page latches during Insert.  The latches are followed along the     *)
(* descent of InsertRecursively in a table of the pages' rwlatch_, on the  *)
(* runs in which no unlatch stops the process.                             *)
(***************************************************************************)
LatchPages == {HEADER_PAGE_ID} \cup TreePageIds
NoLatch == [p \in LatchPages |-> [readers |-> 0, writer |-> FALSE]]
Latched(lt) == {p \in LatchPages : lt[p].writer}

\* Page::WLatch
WLatch(lt, page_id) == [lt EXCEPT ![page_id].writer = TRUE]

\* the table an unlatch leaves when the process carries on
CarryOn(outcomes) == (CHOOSE o \in outcomes : ~o.ub).pg

\* BufferPoolManager::FetchPageWrite, lines 210-215: page->WLatch() for the local
\* page_guard, then return {this, page}: the local guard is destroyed at the
\* return (WritePageGuard::~WritePageGuard -> Drop: page_->WUnlatch())
LatchAfterFetchPageWrite(lt, page_id) == CarryOn(WUnlatch(WLatch(lt, page_id), page_id))

\* while (!ctx.write_set_.empty()) { ctx.write_set_.pop_front(); }: each guard
\* is destroyed, WritePageGuard::Drop unlatches its page
RECURSIVE PopAll(_, _)
PopAll(lt, ws) ==
  IF ws = <<>> THEN lt ELSE PopAll(CarryOn(WUnlatch(lt, Head(ws))), Tail(ws))

\* InsertRecursively, lines 545-570: the pages fetched on the way down to the
\* leaf of key, each with the guards of write_set_ at its fetch (ancestors),
\* whether it is safe, and the latches held after lines 545-550
RECURSIVE InsertDescent(_, _, _, _, _)
InsertDescent(page_id_to_fetch, ws, lt, key, depth) ==
  IF page_id_to_fetch \notin TreePageIds \/ depth > MaxTreePages THEN <<>>
  ELSE LET cur_page == tree_pages[page_id_to_fetch]
           safe == cur_page.size < cur_page.max_size - 1
           lt1 == LatchAfterFetchPageWrite(lt, page_id_to_fetch)
           lt2 == IF safe THEN PopAll(lt1, ws) ELSE lt1
           here == [page_id |-> page_id_to_fetch, safe |-> safe, size |-> cur_page.size,
                    max_size |-> cur_page.max_size, ancestors |-> ws,
                    held |-> Latched(lt2)]
       IN IF ~IsLeafPage(cur_page) /\ cur_page.page_type # "INVALID"
          THEN <<here>> \o
               InsertDescent(ValueAt(cur_page, UpperBoundInternal(cur_page, key) - 1),
                             Append(IF safe THEN <<>> ELSE ws, page_id_to_fetch),
                             lt2, key, depth + 1)
          ELSE <<here>>

\* BPlusTree::Insert, lines 100-119, on a tree that is not empty
InsertLatches(key) ==
  IF root_page_id_ = INVALID_PAGE_ID THEN <<>>
  ELSE InsertDescent(root_page_id_, <<HEADER_PAGE_ID>>,
                     LatchAfterFetchPageWrite(NoLatch, HEADER_PAGE_ID), key, 1)

\* the i-th page of the descent d splits: it and the pages below it are full
\* after the insertion of key, which is not in the leaf
SplitsAt(d, i, key) ==
  /\ \A j \in i .. Len(d) : d[j].size = d[j].max_size - 1
  /\ \A n \in 0 .. d[Len(d)].size - 1 : KeyAt(tree_pages[d[Len(d)].page_id], n) # key

\* C30: during Insert the write latches of all ancestors, header page included,
\* are released exactly when a child with size < max_size - 1 is acquired, and
\* whenever a page splits the thread still holds the write latch of the page
\* that receives the separator: the father, or the header page when the root
\* splits.
C30_InsertLatches ==
  ~aborted =>
    \A key \in Keys :
      LET d == InsertLatches(key)
      IN /\ \A i \in DOMAIN d :
              \A n \in DOMAIN d[i].ancestors :
                (d[i].ancestors[n] \in d[i].held) <=> ~d[i].safe
         /\ \A i \in DOMAIN d :
              SplitsAt(d, i, key) =>
                (IF i = 1 THEN HEADER_PAGE_ID ELSE d[i - 1].page_id) \in d[Len(d)].held

(***************************************************************************)
(* The page latches during GetValue, Begin and Begin(key): the same table, *)
(* with the shared holders of each rwlatch_.                               *)
(***************************************************************************)
ReadLatched(lt) == {p \in LatchPages : lt[p].readers > 0}

\* Page::RLatch
RLatch(lt, page_id) == [lt EXCEPT ![page_id].readers = @ + 1]

\* BufferPoolManager::FetchPageRead, lines 203-208: page->RLatch() for the local
\* page_guard, then return {this, page}: the local guard is destroyed at the
\* return (ReadPageGuard::~ReadPageGuard -> Drop: page_->RUnlatch())
LatchAfterFetchPageRead(lt, page_id) == CarryOn(RUnlatch(RLatch(lt, page_id), page_id))

\* GetValue lines 48-82, Begin lines 160-181 (leftmost = TRUE) and Begin(key)
\* lines 194-226: the pages fetched on the way down, each with the page whose
\* guard is in read_set_ at its fetch (parent) and the read latches held right
\* after its FetchPageRead, before read_set_ is emptied
RECURSIVE ReadDescent(_, _, _, _, _, _)
ReadDescent(page_id_to_fetch, parent, lt, key, leftmost, depth) ==
  IF page_id_to_fetch \notin TreePageIds \/ depth > MaxTreePages THEN <<>>
  ELSE LET page == tree_pages[page_id_to_fetch]
           lt1 == LatchAfterFetchPageRead(lt, page_id_to_fetch)
           lt2 == CarryOn(RUnlatch(lt1, parent))
           here == [page_id |-> page_id_to_fetch, parent |-> parent,
                    held |-> ReadLatched(lt1)]
       IN IF ~IsLeafPage(page) /\ page.page_type # "INVALID"
          THEN <<here>> \o
               ReadDescent(IF leftmost THEN ValueAt(page, 0)
                           ELSE ValueAt(page, UpperBoundInternal(page, key) - 1),
                           page_id_to_fetch, lt2, key, leftmost, depth + 1)
          ELSE <<here>>

\* the descent from the header page
ReadLatches(key, leftmost) ==
  ReadDescent(root_page_id_, HEADER_PAGE_ID,
              LatchAfterFetchPageRead(NoLatch, HEADER_PAGE_ID), key, leftmost, 1)

\* C31: on the way down in GetValue, Begin, Begin(key) and End the thread still
\* holds the read latch of the parent (of the header page for the root) at the
\* moment it has acquired the read latch of the child, so the child cannot be
\* split, merged or freed between the read of its id and its latch.
C31_ReadLatchCrabbing ==
  ~aborted =>
    \A key \in Keys, leftmost \in BOOLEAN :
      LET d == ReadLatches(key, leftmost)
      IN \A i \in DOMAIN d : {d[i].parent, d[i].page_id} \subseteq d[i].held

(***************************************************************************)
(* The tree with the smallest pages, BPlusTree(leaf_max_size = 2,          *)
(* internal_max_size = 2): with MaxKey keys it grows to three levels, so   *)
(* internal pages split, borrow and merge.                                 *)
(***************************************************************************)
InitDeep ==
  /\ k_ = MaxK
  /\ heap = [a \in Addrs |-> FreshNode]
  /\ node_list_less_k_ = <<>>
  /\ node_list_more_k_ = <<>>
  /\ node_store_ = <<>>
  /\ curr_size_ = 0
  /\ current_timestamp_ = 0
  /\ pages_ = [f \in Frames |-> [page_id_ |-> INVALID_PAGE_ID, pin_count_ |-> 0,
                                  is_dirty_ |-> FALSE, data |-> 0,
                                  readers |-> 0, writer |-> FALSE]]
  /\ page_table_ = <<>>
  /\ free_list_ = [i \in 1 .. PoolSize |-> i - 1]
  /\ next_page_id_ = HEADER_PAGE_ID + 1
  /\ disk = [p \in PageIds |-> 0]
  /\ pc = [t \in Threads |-> "idle"]
  /\ loc = [t \in Threads |-> NoLoc]
  /\ hist = NoTreeHist
  /\ aborted = FALSE
  /\ root_page_id_ = INVALID_PAGE_ID
  /\ tree_pages = [p \in TreePageIds |-> BlankPage]
  /\ leaf_max_size_ = (LeafMaxSize - 1) + 1
  /\ internal_max_size_ = (InternalMaxSize - 1) + 1

\* the pages one Insert can take in a tree of two levels: the new leaf, the new
\* internal page and the new root
DeepNewPages == 3

NextDeep ==
  \/ \E key \in Keys, value \in Values :
       /\ next_page_id_ + DeepNewPages <= MaxTreePages + 1
       /\ CallTreeInsert(key, value)
  \/ \E key \in Keys : CallTreeRemove(key)
  \/ \E key \in Keys : CallTreeGetValue(key)

SpecDeep == InitDeep /\ [][NextDeep]_vars

(***************************************************************************)
(* Splits of internal pages, read off the stores of one Insert.            *)
(***************************************************************************)
\* the internal pages of the tree
InternalPages == {p \in TreePageIds : tree_pages[p].page_type = "INTERNAL"}

\* the Insert calls that fit into the pages of the model
CanInsertDeep == ~aborted /\ next_page_id_ + DeepNewPages <= MaxTreePages + 1

\* the stores of Insert(key, value) in the current tree, when no undefined
\* operation is executed
InsertLog(key) ==
  LET r == TreeInsert(TreeState, key, 1, [equal |-> FALSE])
  IN IF r.st.hit = {} THEN r.st.log ELSE <<>>

\* the places of log where a new internal page is stored right before the page
\* it was split from (lines 612-615)
InternalSplits(log) ==
  {i \in 1 .. Len(log) - 2 :
     /\ log[i].page.page_type = "INTERNAL"
     /\ log[i].page_id \in TreePageIds
     /\ tree_pages[log[i].page_id].page_type = "INVALID"
     /\ log[i + 1].page_id \in InternalPages
     /\ log[i + 1].page.page_type = "INTERNAL"}

\* the page log[i + 1].page_id as it was when SplitTo was called: its last store
\* before i
RECURSIVE StoredBefore(_, _, _)
StoredBefore(log, i, page_id) ==
  IF i = 0 THEN tree_pages[page_id]
  ELSE IF log[i].page_id = page_id THEN log[i].page
  ELSE StoredBefore(log, i - 1, page_id)

\* the key next to child page_id in page
KeyOfChild(page, page_id) ==
  KeyAt(page, CHOOSE n \in 0 .. page.size - 1 : ValueAt(page, n) = page_id)

\* the upper half of the children of the full page is in the new page, the
\* lower half stays
UpperHalfMoved(full, src, dst) ==
  /\ src.size = full.size \div 2
  /\ dst.size = full.size - src.size
  /\ \A n \in 0 .. src.size - 1 : PairAt(src, n) = PairAt(full, n)
  /\ \A n \in 0 .. dst.size - 1 : ValueAt(dst, n) = ValueAt(full, src.size + n)

\* the split at place i of log, with the key that the father or the new root
\* receives for the new page
SplitAt(log, i) ==
  [full |-> StoredBefore(log, i - 1, log[i + 1].page_id),
   src |-> log[i + 1].page,
   dst |-> log[i].page,
   promoted |-> KeyOfChild(log[i + 2].page, log[i].page_id)]

\* C32 as stated: when an internal page splits, the upper half of its children
\* moves to the new internal page, and the separator promoted to the father or
\* the new root is the first key of slot 1 of the new page.
C32_PromotesSlotOne ==
  CanInsertDeep =>
    \A key \in Keys : \A i \in InternalSplits(InsertLog(key)) :
      LET s == SplitAt(InsertLog(key), i)
      IN UpperHalfMoved(s.full, s.src, s.dst) /\ s.promoted = KeyAt(s.dst, 1)

\* C32, amended: when an internal page splits, the upper half of its children
\* moves to the new internal page, and the separator promoted to the father or
\* the new root is the key of slot 0 of the new page (the key that stood at the
\* first moved slot), which is smaller than the key of its slot 1 and not
\* smaller than any key left in the old page.
C32_PromotesSlotZero ==
  CanInsertDeep =>
    \A key \in Keys : \A i \in InternalSplits(InsertLog(key)) :
      LET s == SplitAt(InsertLog(key), i)
      IN /\ UpperHalfMoved(s.full, s.src, s.dst)
         /\ s.promoted = KeyAt(s.dst, 0)
         /\ s.promoted = KeyAt(s.full, s.src.size)
         /\ s.dst.size > 1 => s.promoted < KeyAt(s.dst, 1)
         /\ \A n \in 1 .. s.src.size - 1 : KeyAt(s.src, n) < s.promoted

\* an Insert in this state splits an internal page
C32_Witness ==
  CanInsertDeep /\ \E key \in Keys : InternalSplits(InsertLog(key)) # {}

(***************************************************************************)
(* Borrow and merge on one family of pages: a father (page FatherId) with  *)
(* an underfull child and its brothers, as RemoveRecursively finds them    *)
(* after the removal below the child.  The entries of the children are     *)
(* numbered from the left; entry j has key 2 * j.                          *)
(***************************************************************************)
\* the values of GetMaxSize() of the pages of a family
MinFamilyMax == 3
MaxFamilyMax == 5
FatherId == 1
LeftId == 2
CurId == 3
RightId == 4

MinOf(m) == (m + 1) \div 2
\* the sizes a brother can have (0: there is no such brother)
BrotherSizes(m) == {0} \cup (MinOf(m) .. (m - 1))

\* n entries from entry number `first` on
FamilyPairs(kind, first, n) ==
  [i \in 1 .. n |-> [k |-> 2 * (first + i - 1),
                     v |-> IF kind = "LEAF" THEN 1 ELSE MaxTreePages + first + i - 1]]

\* a page holding pairs; key0 is what slot 0 of an internal page has as its key
FamilyPage(kind, m, pairs, key0, next) ==
  [page_type |-> kind, size |-> Len(pairs), max_size |-> m, next_page_id_ |-> next,
   array |-> [i \in Slots |->
                IF i >= Len(pairs) THEN ZeroPair
                ELSE IF kind = "INTERNAL" /\ i = 0 THEN [pairs[1] EXCEPT !.k = key0]
                ELSE pairs[i + 1]]]

\* the pages of the family: left brother with a entries, right brother with b,
\* and between them a page of MinOf(m) entries that has just lost its first
\* (low = 1) or its last (low = 0) entry and is underfull now.  The slot behind
\* its entries held zeroes (the page never had more entries) or, with old, the
\* first pair that SplitTo copied from it to its right brother
Family(kind, m, a, b, low, old) ==
  LET c == MinOf(m)
      sepCur == 2 * (a + 1)
      sepRight == 2 * (a + c + 1)
      fresh == FamilyPage(kind, m, FamilyPairs(kind, a + 1, c),
                          IF a > 0 THEN sepCur ELSE 0,
                          IF b > 0 THEN RightId ELSE INVALID_PAGE_ID)
      full == IF old THEN [fresh EXCEPT !.array[c] = FamilyPairs(kind, a + c + 1, 1)[1]]
              ELSE fresh
      lost == IF low = 1 THEN 0 ELSE c - 1
      children == (IF a > 0 THEN <<[k |-> 0, v |-> LeftId]>> ELSE <<>>)
                  \o <<[k |-> IF a > 0 THEN sepCur ELSE 0, v |-> CurId]>>
                  \o (IF b > 0 THEN <<[k |-> sepRight, v |-> RightId]>> ELSE <<>>)
      father == [page_type |-> "INTERNAL", size |-> Len(children), max_size |-> m,
                 next_page_id_ |-> 0,
                 array |-> [i \in Slots |-> IF i < Len(children) THEN children[i + 1]
                                            ELSE ZeroPair]]
  IN [p \in TreePageIds |->
        IF p = FatherId THEN father
        ELSE IF p = LeftId /\ a > 0
        THEN FamilyPage(kind, m, FamilyPairs(kind, 1, a), 0, CurId)
        ELSE IF p = CurId
        THEN IF kind = "LEAF" THEN LeafRemoveKey(full, 2 * (a + 1 + lost))
             ELSE RemoveAt(full, lost)
        ELSE IF p = RightId /\ b > 0
        THEN FamilyPage(kind, m, FamilyPairs(kind, a + c + 1, b), sepRight, INVALID_PAGE_ID)
        ELSE BlankPage]

NoFamilyHist == [kind |-> "LEAF", left |-> FALSE, right |-> FALSE, before |-> <<>>,
                 done |-> FALSE, hit |-> {}]

InitRebalance ==
  /\ k_ = MaxK
  /\ heap = [a \in Addrs |-> FreshNode]
  /\ node_list_less_k_ = <<>>
  /\ node_list_more_k_ = <<>>
  /\ node_store_ = <<>>
  /\ curr_size_ = 0
  /\ current_timestamp_ = 0
  /\ pages_ = [f \in Frames |-> [page_id_ |-> INVALID_PAGE_ID, pin_count_ |-> 0,
                                  is_dirty_ |-> FALSE, data |-> 0,
                                  readers |-> 0, writer |-> FALSE]]
  /\ page_table_ = <<>>
  /\ free_list_ = [i \in 1 .. PoolSize |-> i - 1]
  /\ next_page_id_ = RightId + 1
  /\ disk = [p \in PageIds |-> 0]
  /\ pc = [t \in Threads |-> "idle"]
  /\ loc = [t \in Threads |-> NoLoc]
  /\ aborted = FALSE
  /\ root_page_id_ = FatherId
  /\ \E kind \in {"LEAF", "INTERNAL"}, m \in MinFamilyMax .. MaxFamilyMax, low \in 0 .. 1 :
       \E a \in BrotherSizes(m), b \in BrotherSizes(m), old \in BOOLEAN :
         /\ a + b > 0
         /\ old => b > 0
         /\ tree_pages = Family(kind, m, a, b, low, old)
         /\ hist = [NoFamilyHist EXCEPT !.kind = kind, !.left = a > 0, !.right = b > 0,
                                        !.before = Family(kind, m, a, b, low, old)]
         /\ leaf_max_size_ = m
         /\ internal_max_size_ = m

\* the state of RemoveRecursively on the underfull page: write_set_ holds the
\* guards of the header page and of the father
FamilyState == [TreeState EXCEPT !.ws = <<HEADER_PAGE_ID, FatherId>>]

\* RemoveRecursively lines 679-729 on an underfull leaf
RebalanceLeaf ==
  /\ ~hist.done /\ hist.kind = "LEAF"
  /\ LET st == LeafRebalance(FamilyState, CurId, GetMinSize(tree_pages[CurId]))
     IN /\ tree_pages' = st.pages
        /\ hist' = [hist EXCEPT !.done = TRUE, !.hit = st.hit]
  /\ UNCHANGED <<repVars, bpmVars, pc, loc, aborted, root_page_id_, leaf_max_size_,
                 internal_max_size_>>

\* RemoveRecursively lines 754-809 on an underfull internal page
RebalanceInternal ==
  /\ ~hist.done /\ hist.kind = "INTERNAL"
  /\ LET st == InternalRebalance(FamilyState, CurId, GetMinSize(tree_pages[CurId]))
     IN /\ tree_pages' = st.pages
        /\ hist' = [hist EXCEPT !.done = TRUE, !.hit = st.hit]
  /\ UNCHANGED <<repVars, bpmVars, pc, loc, aborted, root_page_id_, leaf_max_size_,
                 internal_max_size_>>

NextRebalance == RebalanceLeaf \/ RebalanceInternal

SpecRebalance == InitRebalance /\ [][NextRebalance]_vars

\* the pairs a page holds, in slot order
PagePairs(page) == [i \in 1 .. page.size |-> PairAt(page, i - 1)]

\* the slot of the father that points to a child
SlotOfChild(pages, child) ==
  CHOOSE i \in Slots : i < pages[FatherId].size /\ ValueAt(pages[FatherId], i) = child

\* the first pair of an internal page with the key that bounds it from below
Bounded(pairs, key) == [i \in DOMAIN pairs |-> IF i = 1 THEN [pairs[i] EXCEPT !.k = key]
                                              ELSE pairs[i]]

\* the entries of two adjacent children, from the left: the pairs of two leaves;
\* for two internal pages the children with their lower bounds, the bound of the
\* right-hand page's first child being the father's separator between the two
PairEntries(pages, lo, hi) ==
  IF pages[lo].page_type = "LEAF" THEN PagePairs(pages[lo]) \o PagePairs(pages[hi])
  ELSE Bounded(PagePairs(pages[lo]), 0)
       \o Bounded(PagePairs(pages[hi]), KeyAt(pages[FatherId], SlotOfChild(pages, hi)))

Ascending(pairs) == \A i \in DOMAIN pairs : i > 1 => pairs[i - 1].k < pairs[i].k

LeftLends == hist.left /\ hist.before[LeftId].size > GetMinSize(hist.before[CurId])
RightLends == /\ ~LeftLends
              /\ hist.right /\ hist.before[RightId].size > GetMinSize(hist.before[CurId])
Lender == IF LeftLends THEN LeftId ELSE RightId
LoOfBorrow == IF LeftLends THEN LeftId ELSE CurId
HiOfBorrow == IF LeftLends THEN CurId ELSE RightId

\* C33: after the borrow the underfull page has min_size entries, the lender
\* at least min_size, the entries of the two pages are the same and ascending,
\* and the father's separator between them is the first key of the right-hand
\* page
C33_Borrow ==
  (hist.done /\ (LeftLends \/ RightLends)) =>
    /\ tree_pages[CurId].size = GetMinSize(tree_pages[CurId])
    /\ tree_pages[Lender].size >= GetMinSize(tree_pages[Lender])
    /\ PairEntries(tree_pages, LoOfBorrow, HiOfBorrow)
         = PairEntries(hist.before, LoOfBorrow, HiOfBorrow)
    /\ Ascending(PairEntries(tree_pages, LoOfBorrow, HiOfBorrow))
    /\ KeyAt(tree_pages[FatherId], SlotOfChild(tree_pages, HiOfBorrow))
         = KeyAt(tree_pages[HiOfBorrow], 0)

\* the same for leaves only
LeafBorrowAsClaimed == hist.kind = "LEAF" => C33_Borrow

MergeCase == hist.done /\ ~LeftLends /\ ~RightLends
\* the brother that receives the entries: the left one if there is one
Survivor == IF hist.left THEN LeftId ELSE RightId
LoOfMerge == IF hist.left THEN LeftId ELSE CurId
HiOfMerge == IF hist.left THEN CurId ELSE RightId
SurvivorEntries ==
  IF hist.kind = "LEAF" THEN PagePairs(tree_pages[Survivor])
  ELSE Bounded(PagePairs(tree_pages[Survivor]), 0)
NotCur(pair) == pair.v # CurId
FatherWithoutCur == SelectSeq(PagePairs(hist.before[FatherId]), NotCur)

\* C34: after the merge the surviving brother holds the entries of both pages
\* in ascending order, its size is the sum of the two sizes, the father has
\* lost the slot of the emptied page and nothing else, and the emptied page
\* has been deleted
C34_Merge ==
  MergeCase =>
    /\ SurvivorEntries = PairEntries(hist.before, LoOfMerge, HiOfMerge)
    /\ Ascending(SurvivorEntries)
    /\ tree_pages[Survivor].size
         = hist.before[LoOfMerge].size + hist.before[HiOfMerge].size
    /\ Bounded(PagePairs(tree_pages[FatherId]), 0) = Bounded(FatherWithoutCur, 0)
    /\ tree_pages[CurId] = BlankPage
    /\ hist.hit = {}

\* the same for leaves that have a left brother only
LeafMergeToLeftAsClaimed == (hist.kind = "LEAF" /\ hist.left) => C34_Merge

\* C35: every store of Insert to a tree page or to the header page (the leaf,
\* the father after a split, the header page for a new root) is made while the
\* thread holds the write latch of that page.  The latches held at a store are
\* among those held at the end of the descent: on the way up guards are only
\* destroyed.
C35_StoresUnderLatch ==
  (~aborted /\ next_page_id_ + MaxNewPages <= MaxTreePages + 1) =>
    \A key \in Keys :
      LET d == InsertLatches(key)
          log == TreeInsert(TreeState, key, 1, [equal |-> FALSE]).st.log
          fetched == {HEADER_PAGE_ID} \cup {d[j].page_id : j \in DOMAIN d}
      IN d # <<>> =>
           \A i \in DOMAIN log :
             log[i].page_id \in fetched => log[i].page_id \in d[Len(d)].held

\* the pairs Begin() .. End() yields on the tree st leaves
ScanOf(st) ==
  Scan(st.pages, Begin(st.pages, st.root), End(st.pages, st.root), ScanFuel)

\* C36: Remove(key) leaves GetValue(j) as it was for every other key j, and
\* the iteration from Begin() to End() afterwards yields as many pairs as
\* there are keys left, also when the removal borrows or merges.
C36_RemoveKeepsOthers ==
  (~aborted /\ hist.stopped = "none") =>
    \A key \in Keys :
      LET st == TreeRemove(TreeState, key)
      IN "none" \in StopsOf(st.hit) =>
           /\ \A j \in Keys \ {key} :
                TreeGetValue(st.pages, st.root, j) = TreeGetValue(tree_pages, root_page_id_, j)
           /\ st.root # INVALID_PAGE_ID =>
                /\ ScanOf(st).ends
                /\ Len(ScanOf(st).pairs)
                     = Cardinality({j \in Keys : TreeGetValue(st.pages, st.root, j).found})

\* the undefined uses of ctx.write_set_ and of a guard taken from it: back() /
\* pop_back() of the empty deque, and PageId() / AsMut() of a guard that holds
\* no page
WriteSetMisuse == {"write_set_.back", "PageId", "AsMut"}

\* C37: whenever Insert or Remove takes ctx.write_set_.back(), the deque is not
\* empty and the guard is a live guard, also after a safe descendant has
\* released the ancestors.
C37_BackOfWriteSet ==
  ~aborted =>
    \A key \in Keys :
      /\ next_page_id_ + MaxNewPages <= MaxTreePages + 1 =>
           \A u \in UBChoices :
             TreeInsert(TreeState, key, 1, u).st.hit \cap WriteSetMisuse = {}
      /\ TreeRemove(TreeState, key).hit \cap WriteSetMisuse = {}

\* C38: every Remove call returns: the loops that repeat DeletePage after a
\* merge or a root collapse exit and the call comes back to its caller.
C38_RemoveTerminates == hist.ret.op = "Remove" => hist.stopped = "none"

\* the threads inside FetchPageRead / FetchPageWrite / FetchPageBasic /
\* NewPageGuarded on frame f: FetchPage or NewPage has returned with the page
\* pinned for the call, and the local page_guard has not been destroyed yet
InGuardedCall(f) ==
  {t \in Threads : pc[t] \in {"g_ctor", "g_unwind"} /\ loc[t].frame_id = f}

\* C39: every pin an operation takes is released once and by that operation:
\* no unpin takes away a pin of another operation, so a page stays pinned as
\* long as a call that pinned it is working on it, and when no call is in
\* progress and no guard is live every page has pin count 0 and no latch.
C39_PinsReleasedOnce ==
  ~aborted =>
    \A f \in Frames :
      /\ pages_[f].pin_count_ >= Cardinality(InGuardedCall(f))
      /\ ((\A t \in Threads : pc[t] = "idle" /\ loc[t].guards = <<>>)
            => (pages_[f].pin_count_ = 0 /\ pages_[f].readers = 0 /\ ~pages_[f].writer))

\* the threads whose FetchPage / NewPage has returned nullptr inside a guarded call
GotNoFrame == {t \in Threads : pc[t] \in {"g_ctor", "g_unwind"} /\ loc[t].frame_id = NoFrame}

\* C40: when no frame can be had, FetchPageBasic, FetchPageRead, FetchPageWrite
\* and NewPageGuarded give back an empty guard: no null page is latched or
\* dereferenced, and the release of the guard (of the local guard and of the
\* one returned) is defined and changes nothing in the pool.
C40_ExhaustedPoolEmptyGuard ==
  /\ hist.stopped \notin {"RLatch", "WLatch"}
  /\ ~aborted =>
       \A t \in GotNoFrame :
         \A d \in DropGuard(Rep, pages_, page_table_,
                            Guard(IF loc[t].g = "new" THEN "basic" ELSE loc[t].g, NoFrame)) :
           ~d.ub /\ d.pg = pages_ /\ d.R = Rep

====
